---- MODULE Spec2Model ----
(***************************************************************************)
(* A model of the Stattic static-site generator's outbound-request safety  *)
(* layer (stattic_pkg/url_validator.py) and of its image pipeline, build   *)
(* orchestrator and output reconciliation (stattic_pkg/core.py).           *)
(***************************************************************************)
EXTENDS Integers, Sequences, FiniteSets, TLC

VARIABLES
    call,       \* URLValidator / SafeRequestor: the call that has just returned
    last,       \* the URL of the call before it and whether it passed validation
    files,      \* local references: the regular files that exist on the disk
    res,        \* local references: the resolution that has just returned
    imgdir,     \* the images directory: the state and the content of each file name
    workers,    \* the processes that run FileProcessor.process
    wk,         \* each worker's position in process_images and its local variables
    results,    \* what the finished runs of process_images returned, in order
    dl,         \* how often each source was requested over HTTP
    cv,         \* how often a conversion of each source was started
    cfg,        \* the site: blog slug, pages, posts, posts per page, templates
    tree,       \* the output root: what each top-level entry holds
    pre,        \* the output root as it was before the generator was constructed
    gen,        \* the generator: how far the build is, and its _fonts_cached flag
    doc,        \* process_images on one text: its position and its local variables
    tasks,      \* build_posts_and_pages: the list of (file, is_page) it hands on
    single,     \* _build_single_threaded on that list: position and aggregates
    pool,       \* _build_with_multiprocessing on that list: futures and aggregates
    dn,         \* download_image on one response: its position and its local variables
    life,       \* one generator from its construction to the end of build()
    fp          \* FileProcessor.process on one content file: its position and its steps

urlVars == <<call, last>>
pathVars == <<files, res>>
imgVars == <<imgdir, workers, wk, results, dl, cv>>
buildVars == <<cfg, tree, pre, gen>>
textVars == <<doc>>
taskVars == <<tasks, single, pool>>
downVars == <<dn>>
lifeVars == <<life>>
procVars == <<fp>>

vars == <<call, last, files, res, imgdir, workers, wk, results, dl, cv, cfg, tree, pre, gen,
          doc, tasks, single, pool, dn, life, fp>>

\* what the actions of one part of the program leave alone
notUrlVars == <<pathVars, imgVars, buildVars, textVars, taskVars, downVars, lifeVars, procVars>>
notPathVars == <<urlVars, imgVars, buildVars, textVars, taskVars, downVars, lifeVars, procVars>>
notImgVars == <<urlVars, pathVars, buildVars, textVars, taskVars, downVars, lifeVars, procVars>>
notBuildVars == <<urlVars, pathVars, imgVars, textVars, taskVars, downVars, lifeVars, procVars>>
notTextVars == <<urlVars, pathVars, imgVars, buildVars, taskVars, downVars, lifeVars, procVars>>
notTaskVars == <<urlVars, pathVars, imgVars, buildVars, textVars, downVars, lifeVars, procVars>>
notDownVars == <<urlVars, pathVars, imgVars, buildVars, textVars, taskVars, lifeVars, procVars>>
notLifeVars == <<urlVars, pathVars, imgVars, buildVars, textVars, taskVars, downVars, procVars>>
notProcVars == <<urlVars, pathVars, imgVars, buildVars, textVars, taskVars, downVars, lifeVars>>

(***************************************************************************)
(* Bounds of the model.                                                    *)
(***************************************************************************)
\* the most addresses one DNS answer carries
MaxAddrs == 2
\* the most redirect hops the server side answers with in one request
MaxHops == 2
\* the most runs of process_images that are started
MaxRuns == 3
\* the largest posts_per_page setting of a site
MaxPostsPerPage == 2
\* the most posts, and the most pages, of one task list
MaxTasks == 2
\* the most content files of one site
MaxFiles == 13
\* the most image references in the body of one content file
MaxBodyRefs == 2

Pow2(n) == 2 ^ n

(***************************************************************************)
(* IP addresses and networks.  An address is its version and its groups:   *)
(* four 8-bit groups for IPv4, eight 16-bit groups for IPv6.  A string     *)
(* that is no address at all has version 0.                                *)
(***************************************************************************)
Ip4(a, b, c, d) == [v |-> 4, g |-> <<a, b, c, d>>]
Ip6(a, b, c, d, e, f, g, h) == [v |-> 6, g |-> <<a, b, c, d, e, f, g, h>>]
NotAnAddress == [v |-> 0, g |-> <<>>]
Net(ip, prefix) == [v |-> ip.v, g |-> ip.g, p |-> prefix]

GroupBits(v) == IF v = 4 THEN 8 ELSE 16

\* ipaddress: `ip in network`, false when the versions differ
ip_in_network(ip, net) ==
    /\ ip.v = net.v
    /\ \A i \in DOMAIN net.g :
         LET w == GroupBits(net.v)
             hi == i * w
             lo == (i - 1) * w
         IN  IF hi <= net.p THEN ip.g[i] = net.g[i]
             ELSE IF lo < net.p
                  THEN ip.g[i] \div Pow2(hi - net.p) = net.g[i] \div Pow2(hi - net.p)
                  ELSE TRUE

BLOCKED_IP_RANGES ==
    << Net(Ip4(0, 0, 0, 0), 8),
       Net(Ip4(10, 0, 0, 0), 8),
       Net(Ip4(100, 64, 0, 0), 10),
       Net(Ip4(127, 0, 0, 0), 8),
       Net(Ip4(169, 254, 0, 0), 16),
       Net(Ip4(172, 16, 0, 0), 12),
       Net(Ip4(192, 0, 0, 0), 24),
       Net(Ip4(192, 0, 2, 0), 24),
       Net(Ip4(192, 88, 99, 0), 24),
       Net(Ip4(192, 168, 0, 0), 16),
       Net(Ip4(198, 18, 0, 0), 15),
       Net(Ip4(198, 51, 100, 0), 24),
       Net(Ip4(203, 0, 113, 0), 24),
       Net(Ip4(224, 0, 0, 0), 4),
       Net(Ip4(240, 0, 0, 0), 4),
       Net(Ip4(255, 255, 255, 255), 32),
       Net(Ip6(0, 0, 0, 0, 0, 0, 0, 1), 128),
       Net(Ip6(0, 0, 0, 0, 0, 0, 0, 0), 128),
       Net(Ip6(0, 0, 0, 0, 0, 65535, 0, 0), 96),
       Net(Ip6(65152, 0, 0, 0, 0, 0, 0, 0), 10),
       Net(Ip6(64512, 0, 0, 0, 0, 0, 0, 0), 7),
       Net(Ip6(65280, 0, 0, 0, 0, 0, 0, 0), 8) >>

\* a variant of the scheme list without plain http
ALLOWED_SCHEMES_https_only == {"https"}

ALLOWED_SCHEMES == {"http", "https"}

\* host names are their labels, so that "ends with '.' + domain" is a suffix of labels
BLOCKED_HOSTNAMES ==
    { <<"localhost">>, <<"localhost", "localdomain">>, <<"ip6-localhost">>,
      <<"ip6-loopback">>, <<"broadcasthost">>, <<"0", "0", "0", "0">>,
      <<"127", "0", "0", "1">>, <<"::1">>,
      <<"metadata", "google", "internal">>, <<"169", "254", "169", "254">> }

ALLOWED_DOMAINS == { <<"fonts", "googleapis", "com">>, <<"fonts", "gstatic", "com">> }

(***************************************************************************)
(* The addresses DNS answers with in this model: public and blocked ones   *)
(* of both versions, at the edges of two blocked ranges, and a string that *)
(* ipaddress.ip_address does not parse.                                    *)
(***************************************************************************)
Addrs ==
    { Ip4(93, 184, 216, 34),                 \* public
      Ip4(172, 31, 255, 255),                \* last address of 172.16.0.0/12
      Ip4(172, 32, 0, 0),                    \* first address after it: public
      Ip6(65215, 0, 0, 0, 0, 0, 0, 1),       \* febf::1, inside fe80::/10
      Ip6(0, 0, 0, 0, 0, 65535, 2560, 1),    \* ::ffff:10.0.0.1, IPv4-mapped
      NotAnAddress }

SeqsNoDup(S, n) ==
    UNION { { s \in [1..k -> S] : \A i, j \in 1..k : i # j => s[i] # s[j] } : k \in 1..n }

\* what the resolver does for a host at the moment it is asked: it raises
\* socket.gaierror, raises something else, or answers with distinct addresses
\* (list(set(...)) of getaddrinfo's rows, in no particular order)
Answer(kind, addrs) == [kind |-> kind, addrs |-> addrs]
Unasked == Answer("unasked", <<>>)
DnsAnswers ==
    {Answer("gaierror", <<>>), Answer("error", <<>>)}
        \cup {Answer("addrs", s) : s \in SeqsNoDup(Addrs, MaxAddrs)}

Range(s) == { s[i] : i \in DOMAIN s }

(***************************************************************************)
(* URLs, by the parts urlparse and the pattern checks read.                *)
(*   scheme, netloc: parsed.scheme, whether parsed.netloc is non-empty     *)
(*   host: parsed.hostname as labels (<<>> when there is none)             *)
(*   userinfo: '@' in parsed.netloc                                        *)
(*   pattern: the text matches one of the suspicious patterns              *)
(*   gf: what validate_google_fonts_url sees in the text                   *)
(***************************************************************************)
Url(scheme, host, userinfo, pattern, gf) ==
    [scheme |-> scheme, netloc |-> host # <<>> \/ userinfo, host |-> host,
     userinfo |-> userinfo, pattern |-> pattern, gf |-> gf]

PubHost == <<"pub", "example">>
GStatic == <<"fonts", "gstatic", "com">>
GApis == <<"fonts", "googleapis", "com">>

URLs ==
    { Url("https", PubHost, FALSE, FALSE, "none"),       \* https://pub.example/a.jpg
      Url("http", PubHost, FALSE, FALSE, "none"),        \* http://pub.example/a.jpg
      Url("ftp", PubHost, FALSE, FALSE, "none"),         \* ftp://pub.example/a.jpg
      Url("", <<>>, FALSE, FALSE, "none"),               \* a.jpg
      Url("https", <<"localhost">>, FALSE, FALSE, "none"),
      Url("https", <<"169", "254", "169", "254">>, FALSE, FALSE, "none"),
      Url("https", PubHost, TRUE, FALSE, "none"),        \* https://user@pub.example/a.jpg
      Url("https", PubHost, FALSE, TRUE, "none"),        \* https://pub.example/../a.jpg
      Url("https", GStatic, FALSE, FALSE, "static_ok"),  \* https://fonts.gstatic.com/s/f.woff
      Url("http", GStatic, FALSE, FALSE, "static_bad"),  \* http://fonts.gstatic.com/s/f.woff
      Url("https", <<"cdn">> \o GStatic, FALSE, FALSE, "static_bad"),
      Url("https", GApis, FALSE, FALSE, "api_ok"),       \* https://fonts.googleapis.com/css2?family=Q
      Url("https", PubHost, FALSE, FALSE, "api_bad") }   \* https://pub.example/?fonts.googleapis.com

NoUrl == Url("", <<>>, FALSE, FALSE, "none")

(***************************************************************************)
(* URLValidator                                                            *)
(***************************************************************************)
\* _is_ip_allowed: "raise" when ipaddress.ip_address raises ValueError, which the
\* handler for AddressValueError does not catch
is_ip_allowed_v4_only(ip_str) ==
    IF ip_str.v = 0 THEN "raise"
    ELSE IF \E i \in DOMAIN BLOCKED_IP_RANGES :
              BLOCKED_IP_RANGES[i].v = 4 /\ ip_in_network(ip_str, BLOCKED_IP_RANGES[i])
         THEN "blocked" ELSE "allowed"

is_ip_allowed(ip_str) ==
    IF ip_str.v = 0 THEN "raise"
    ELSE IF \E i \in DOMAIN BLOCKED_IP_RANGES : ip_in_network(ip_str, BLOCKED_IP_RANGES[i])
         THEN "blocked" ELSE "allowed"

\* the loop of validate_url over the resolved addresses, from the i-th on
RECURSIVE check_addresses(_, _)
check_addresses(ip_addresses, i) ==
    IF i > Len(ip_addresses) THEN [out |-> "pass", checked |-> i - 1]
    ELSE LET a == is_ip_allowed(ip_addresses[i])
         IN  IF a = "allowed" THEN check_addresses(ip_addresses, i + 1)
             ELSE [out |-> a, checked |-> i]

Verdict(ok, reason, asked, checked) ==
    [ok |-> ok, reason |-> reason, asked |-> asked, checked |-> checked]

\* the try block around _resolve_hostname and the loop over its addresses
resolve_and_check_fail_open(ans) ==
    IF ans.kind # "addrs" THEN Verdict(TRUE, "", TRUE, 0)
    ELSE LET r == check_addresses(ans.addrs, 1)
         IN  Verdict(r.out = "pass", r.out, TRUE, r.checked)

resolve_and_check(ans) ==
    IF ans.kind = "gaierror" THEN Verdict(FALSE, "Cannot resolve hostname", TRUE, 0)
    ELSE IF ans.kind = "error" THEN Verdict(FALSE, "DNS resolution error", TRUE, 0)
    ELSE LET r == check_addresses(ans.addrs, 1)
         IN  IF r.out = "pass" THEN Verdict(TRUE, "", TRUE, r.checked)
             ELSE IF r.out = "blocked" THEN Verdict(FALSE, "Blocked IP address", TRUE, r.checked)
             ELSE Verdict(FALSE, "DNS resolution error", TRUE, r.checked)

IsSuffix(s, t) ==
    /\ Len(s) <= Len(t)
    /\ \A i \in 1..Len(s) : s[i] = t[Len(t) - Len(s) + i]

\* hostname == domain or hostname.endswith('.' + domain), for some allowed domain
domain_allowed(hostname, allowed_domains) ==
    \E d \in allowed_domains : IsSuffix(d, hostname)

\* _check_url_patterns
check_url_patterns(url) == ~url.pattern /\ ~(url.netloc /\ url.userinfo)

\* validate_url(url, allowed_domains), with the resolver's answer for the host
validate_url(url, allowed_domains, ans) ==
    IF url.scheme = "" \/ ~url.netloc THEN Verdict(FALSE, "Invalid URL format", FALSE, 0)
    ELSE IF url.scheme \notin ALLOWED_SCHEMES THEN Verdict(FALSE, "Unsupported URL scheme", FALSE, 0)
    ELSE IF url.host = <<>> THEN Verdict(FALSE, "Invalid hostname in URL", FALSE, 0)
    ELSE IF url.host \in BLOCKED_HOSTNAMES THEN Verdict(FALSE, "Blocked hostname", FALSE, 0)
    ELSE IF allowed_domains # {} /\ ~domain_allowed(url.host, allowed_domains)
         THEN Verdict(FALSE, "Domain not in allowlist", FALSE, 0)
    ELSE LET r == resolve_and_check(ans)
         IN  IF ~r.ok THEN r
             ELSE IF ~check_url_patterns(url)
                  THEN Verdict(FALSE, "URL contains suspicious patterns", TRUE, r.checked)
                  ELSE Verdict(TRUE, "URL is valid", TRUE, r.checked)

\* validate_google_fonts_url
validate_google_fonts_url(url, ans) ==
    IF url.gf \in {"api_bad"} THEN Verdict(FALSE, "Invalid Google Fonts API URL format", FALSE, 0)
    ELSE IF url.gf \in {"static_bad"}
         THEN Verdict(FALSE, "Invalid Google Fonts static URL format", FALSE, 0)
         ELSE validate_url(url, ALLOWED_DOMAINS, ans)

(***************************************************************************)
(* SafeRequestor                                                           *)
(***************************************************************************)
\* where the HTTP client is redirected to by the servers it talks to
RedirectTargets ==
    { Url("https", PubHost, FALSE, FALSE, "none"),
      Url("http", <<"169", "254", "169", "254">>, FALSE, FALSE, "none"),
      Url("https", GStatic, FALSE, FALSE, "static_ok") }

\* the Location headers the servers answer with, hop after hop
Chains(allow_redirects) ==
    IF allow_redirects
    THEN UNION { [1..k -> RedirectTargets] : k \in 0..MaxHops }
    ELSE { <<>> }

HttpOutcomes == {"ok", "RequestException"}

\* session.get(url, **kwargs): the URLs requested, the client following the
\* Location headers by itself when allow_redirects is set
session_get(url, allow_redirects, chain) ==
    IF allow_redirects THEN <<url>> \o chain ELSE <<url>>

\* the validation safe_get runs first
safe_get_validation_cached(url, allowed_domains, ans) ==
    IF last.url = url /\ last.ok THEN Verdict(TRUE, "URL is valid", FALSE, 0)
    ELSE validate_url(url, allowed_domains, ans)

safe_get_validation(url, allowed_domains, ans) ==
    validate_url(url, allowed_domains, ans)

DomainSet(allowed) == IF allowed THEN ALLOWED_DOMAINS ELSE {}

Prior(url) ==
    IF ~last.any \/ last.url # url THEN "none"
    ELSE IF last.ok THEN "pass" ELSE "fail"

Call(op, url, allowed, redirects, ans0, ans, verdict, ok, sent, validated) ==
    [op |-> op, url |-> url, allowed |-> allowed, redirects |-> redirects,
     ans0 |-> ans0, ans |-> ans, verdict |-> verdict, ok |-> ok, sent |-> sent,
     validated |-> validated, prior |-> Prior(url)]

NoCall ==
    [op |-> "none", url |-> NoUrl, allowed |-> FALSE, redirects |-> FALSE,
     ans0 |-> Unasked, ans |-> Unasked, verdict |-> Verdict(FALSE, "", FALSE, 0),
     ok |-> FALSE, sent |-> <<>>, validated |-> {}, prior |-> "none"]

\* a call of URLValidator.validate_url
ValidateUrl ==
    /\ call.op = "none"
    /\ UNCHANGED last
    /\ UNCHANGED notUrlVars
    /\ \E url \in URLs, allowed \in BOOLEAN, ans \in DnsAnswers :
        LET v == validate_url(url, DomainSet(allowed), ans)
        IN  call' = Call("validate_url", url, allowed, FALSE, Unasked, ans, v, v.ok, <<>>, {url})

\* a call of URLValidator.validate_google_fonts_url
ValidateGoogleFontsUrl ==
    /\ call.op = "none"
    /\ UNCHANGED last
    /\ UNCHANGED notUrlVars
    /\ \E url \in URLs, ans \in DnsAnswers :
        LET v == validate_google_fonts_url(url, ans)
        IN  call' = Call("validate_google_fonts_url", url, TRUE, FALSE, Unasked, ans, v, v.ok,
                         <<>>, {url})

\* the part of safe_get after the validation passed
SafeGetRequest(op, url, allowed, allow_redirects, ans0, ans, v) ==
    \E chain \in Chains(allow_redirects), http \in HttpOutcomes :
        call' = Call(op, url, allowed, allow_redirects, ans0, ans, v, http = "ok",
                     session_get(url, allow_redirects, chain), {url})

\* a call of SafeRequestor.safe_get; allow_redirects is False unless the caller
\* passes it, and the image and font fetchers pass True
SafeGet ==
    /\ call.op = "none"
    /\ UNCHANGED last
    /\ UNCHANGED notUrlVars
    /\ \E url \in URLs, allowed \in BOOLEAN, allow_redirects \in BOOLEAN, ans \in DnsAnswers :
        LET v == safe_get_validation(url, DomainSet(allowed), ans)
        IN  IF v.ok
            THEN SafeGetRequest("safe_get", url, allowed, allow_redirects, Unasked, ans, v)
            ELSE call' = Call("safe_get", url, allowed, allow_redirects, Unasked, ans, v, FALSE,
                              <<>>, {url})

\* a call of SafeRequestor.safe_google_fonts_get: validate_google_fonts_url, then
\* safe_get with the allow-list, which resolves and validates once more
SafeGoogleFontsGet ==
    /\ call.op = "none"
    /\ UNCHANGED last
    /\ UNCHANGED notUrlVars
    /\ \E url \in URLs, allow_redirects \in BOOLEAN, ans0 \in DnsAnswers :
        LET v0 == validate_google_fonts_url(url, ans0)
        IN  IF ~v0.ok
            THEN call' = Call("safe_google_fonts_get", url, TRUE, allow_redirects, ans0, Unasked,
                              v0, FALSE, <<>>, {url})
            ELSE \E ans \in DnsAnswers :
                    LET v == safe_get_validation(url, ALLOWED_DOMAINS, ans)
                    IN  IF v.ok
                        THEN SafeGetRequest("safe_google_fonts_get", url, TRUE,
                                            allow_redirects, ans0, ans, v)
                        ELSE call' = Call("safe_google_fonts_get", url, TRUE, allow_redirects,
                                          ans0, ans, v, FALSE, <<>>, {url})

\* the caller takes the returned tuple; nothing of the call stays in the
\* validator or the requestor (the model remembers its URL and verdict)
Return ==
    /\ call.op # "none"
    /\ last' = [any |-> TRUE, url |-> call.url, ok |-> call.verdict.ok]
    /\ call' = NoCall
    /\ UNCHANGED notUrlVars

UrlInit ==
    /\ call = NoCall
    /\ last = [any |-> FALSE, url |-> NoUrl, ok |-> FALSE]

UrlNext ==
    \/ ValidateUrl
    \/ ValidateGoogleFontsUrl
    \/ SafeGet
    \/ SafeGoogleFontsGet
    \/ Return

(***************************************************************************)
(* Properties of URL validation and of the safe requestor.                 *)
(***************************************************************************)
ValidatorOps == {"validate_url", "validate_google_fonts_url"}
RequestorOps == {"safe_get", "safe_google_fonts_get"}

InBlockedRange(a) ==
    a.v # 0 /\ \E i \in DOMAIN BLOCKED_IP_RANGES : ip_in_network(a, BLOCKED_IP_RANGES[i])

ResolvesToBlocked(ans) ==
    ans.kind = "addrs" /\ \E a \in Range(ans.addrs) : InBlockedRange(a)

\* C1: whenever the host of the URL resolves to addresses of which at least one
\* lies in a range of the blocked CIDR table, validation answers ok = false (and
\* the requestor sends nothing), whatever the host name is and with or without
\* an allow-list.
C1_BlockedAddressIsRejected ==
    /\ ResolvesToBlocked(call.ans) => ~call.verdict.ok /\ ~call.ok /\ call.sent = <<>>
    /\ ResolvesToBlocked(call.ans0) => ~call.verdict.ok /\ ~call.ok /\ call.sent = <<>>

\* an allow-listed host whose second address is blocked was resolved and rejected
C1_Witness ==
    /\ call.op = "validate_url"
    /\ call.allowed
    /\ call.verdict.asked
    /\ call.ans.kind = "addrs"
    /\ Len(call.ans.addrs) = 2
    /\ ~InBlockedRange(call.ans.addrs[1])
    /\ InBlockedRange(call.ans.addrs[2])
    /\ call.ans.addrs[2].v = 6
    /\ ~call.ok

\* C2: a call of safe_get or safe_google_fonts_get sends a request only if the
\* validation of its URL against the resolver's answer of this very call passes,
\* and when that validation fails it returns failure and sends nothing: no
\* verdict of an earlier call stands in for it.
C2_ValidatedAnewBeforeRequest ==
    /\ call.op = "safe_get" =>
          LET v == validate_url(call.url, DomainSet(call.allowed), call.ans)
          IN  /\ call.sent # <<>> => v.ok
              /\ ~v.ok => ~call.ok /\ call.sent = <<>>
    /\ call.op = "safe_google_fonts_get" =>
          LET v0 == validate_google_fonts_url(call.url, call.ans0)
              v == validate_url(call.url, ALLOWED_DOMAINS, call.ans)
          IN  /\ call.sent # <<>> => v0.ok /\ v.ok
              /\ ~v0.ok \/ ~v.ok => ~call.ok /\ call.sent = <<>>

\* a URL that passed validation in the call before is now rejected, because its
\* host resolves to a blocked address this time, and nothing is sent
C2_Witness ==
    /\ call.op = "safe_get"
    /\ call.prior = "pass"
    /\ ResolvesToBlocked(call.ans)
    /\ ~call.verdict.ok
    /\ ~call.ok
    /\ call.sent = <<>>

\* C3: every URL a request is sent to by a fetch that follows redirects, the
\* target of every followed hop included, was validated in that call.
C3_EveryHopValidated ==
    call.op \in RequestorOps /\ call.redirects =>
        \A i \in DOMAIN call.sent : call.sent[i] \in call.validated

ResolutionFails(ans) ==
    \/ ans.kind \in {"gaierror", "error"}
    \/ ans.kind = "addrs" /\ NotAnAddress \in Range(ans.addrs)

\* C4: when the resolver raises, or the check of a resolved address raises,
\* validation answers ok = false; and it answers ok = true only after every
\* resolved address was checked.
C4_FailClosedOnDns ==
    call.op \in ValidatorOps =>
        /\ ResolutionFails(call.ans) => ~call.ok
        /\ call.ok => /\ call.ans.kind = "addrs"
                      /\ call.verdict.asked
                      /\ call.verdict.checked = Len(call.ans.addrs)

\* the resolver raised socket.gaierror for a host that was asked for
C4_Witness ==
    /\ call.op = "validate_url"
    /\ call.verdict.asked
    /\ call.ans.kind = "gaierror"
    /\ ~call.ok

\* a well-formed http(s) URL was validated without allow-list, and its host
\* resolved to addresses that all lie outside the blocked CIDR table
PublicUrlValidated ==
    /\ call.op = "validate_url"
    /\ ~call.allowed
    /\ call.url.scheme \in {"http", "https"}
    /\ call.url.host # <<>>
    /\ call.ans.kind = "addrs"
    /\ \A a \in Range(call.ans.addrs) : a.v # 0 /\ ~InBlockedRange(a)

\* C22, amended: such a URL is answered with ok = true when, in addition, its
\* host name is not on the list of blocked host names, its netloc carries no
\* user-info and its text matches none of the suspicious patterns.
C22_PublicUrlAccepted ==
    (/\ PublicUrlValidated
     /\ call.url.host \notin BLOCKED_HOSTNAMES
     /\ ~call.url.userinfo
     /\ ~call.url.pattern) => call.verdict.ok /\ call.ok

\* http://pub.example/a.jpg, resolving to two public addresses, was accepted
C22_Witness ==
    /\ PublicUrlValidated
    /\ call.url.scheme = "http"
    /\ Len(call.ans.addrs) = 2
    /\ call.verdict.ok

\* C22 as claimed: every well-formed http(s) URL whose host resolves only to
\* addresses outside the blocked CIDR table is answered with ok = true.
C22_EveryPublicUrlAccepted ==
    PublicUrlValidated => call.verdict.ok

(***************************************************************************)
(* Local image references (FileProcessor.process_images and                *)
(* FileProcessor.process_featured_image).                                  *)
(*                                                                         *)
(* A path is the sequence of its segments and a segment the sequence of    *)
(* the pieces of its name, so that "site2" = <<"site", "2">> starts with   *)
(* "site" as a string although it is another directory.                    *)
(***************************************************************************)
DotDot == <<"..">>

SiteRoot == << <<"srv">>, <<"site">> >>                 \* dirname(content_dir)
ContentDir == SiteRoot \o << <<"content">> >>           \* content_dir
PostsDir == ContentDir \o << <<"posts">> >>
PagesDir == ContentDir \o << <<"pages">> >>
AssetsDir == SiteRoot \o << <<"assets">> >>
SiblingDir == << <<"srv">>, <<"site", "2">> >>          \* /srv/site2

\* the markdown files whose references are resolved
MarkdownFiles == { PostsDir \o << <<"post.md">> >>, PagesDir \o << <<"about.md">> >> }

\* the directories of the disk
Dirs ==
    { <<>>, << <<"srv">> >>, SiteRoot, ContentDir, PostsDir, PagesDir,
      PostsDir \o << <<"img">> >>, AssetsDir, AssetsDir \o << <<"images">> >>,
      SiblingDir, << <<"etc">> >> }

\* the files that may exist on it
CandidateFiles ==
    { PostsDir \o << <<"pic.png">> >>,
      PostsDir \o << <<"img">>, <<"a.png">> >>,
      ContentDir \o << <<"shared.png">> >>,
      AssetsDir \o << <<"images">>, <<"hero.jpg">> >>,
      SiteRoot \o << <<"secret.png">> >>,
      SiblingDir \o << <<"s.png">> >>,
      << <<"etc">>, <<"passwd.png">> >> }

\* a reference as written in the content: whether it starts with '/', and its
\* segments
Ref(abs, segs) == [abs |-> abs, segs |-> segs]

LocalRefs ==
    { Ref(FALSE, << <<"pic.png">> >>),                                    \* pic.png
      Ref(FALSE, << <<"img">>, <<"a.png">> >>),                           \* img/a.png
      Ref(FALSE, << <<"shared.png">> >>),                                 \* shared.png
      Ref(FALSE, << <<"hero.jpg">> >>),                                   \* hero.jpg
      Ref(FALSE, << <<"a", "..", "b.png">> >>),                           \* a..b.png
      Ref(FALSE, << DotDot, <<"shared.png">> >>),                         \* ../shared.png
      Ref(FALSE, << DotDot, DotDot, <<"secret.png">> >>),                 \* ../../secret.png
      Ref(FALSE, << DotDot, DotDot, DotDot, <<"site", "2">>, <<"s.png">> >>),
      Ref(TRUE, << <<"etc">>, <<"passwd.png">> >>),                       \* /etc/passwd.png
      Ref(TRUE, << <<"assets">>, <<"images">>, <<"hero.jpg">> >>),        \* /assets/images/hero.jpg
      Ref(TRUE, << DotDot, <<"site", "2">>, <<"s.png">> >>),              \* /../site2/s.png
      Ref(FALSE, << <<"assets">>, <<"images">>, <<"hero.jpg">> >>),       \* assets/images/hero.jpg
      Ref(FALSE, << <<"assets">>, DotDot, DotDot, <<"site", "2">>, <<"s.png">> >>),
      Ref(FALSE, << <<"content">>, <<"posts">>, <<"pic.png">> >>),        \* content/posts/pic.png
      Ref(FALSE, << <<"img">>, DotDot >>) }                               \* img/..

Parent(path) == IF path = <<>> THEN <<>> ELSE SubSeq(path, 1, Len(path) - 1)

\* os.path.dirname of a file path
dirname(path) == Parent(path)

\* os.path.basename of a reference
basename(ref) == IF ref.segs = <<>> THEN <<>> ELSE << ref.segs[Len(ref.segs)] >>

\* os.path.join(dir, relative path)
join(dir, segs) == dir \o segs

\* os.path.abspath: the path with its '..' segments resolved textually
RECURSIVE normpath(_, _)
normpath(segs, acc) ==
    IF segs = <<>> THEN acc
    ELSE IF Head(segs) = DotDot THEN normpath(Tail(segs), Parent(acc))
    ELSE normpath(Tail(segs), Append(acc, Head(segs)))

abspath(path) == normpath(path, <<>>)

\* os.path.exists: the path as the operating system walks it, every segment
\* that is descended from being a directory
RECURSIVE walk(_, _)
walk(segs, cur) ==
    IF segs = <<>> THEN cur \in files \/ cur \in Dirs
    ELSE IF cur \notin Dirs THEN FALSE
    ELSE IF Head(segs) = DotDot THEN walk(Tail(segs), Parent(cur))
    ELSE walk(Tail(segs), Append(cur, Head(segs)))

exists(path) == walk(path, <<>>)

\* the file the operating system opens for a path that exists
Opened(path) == abspath(path)

\* the text of an absolute path
RECURSIVE path_str(_)
path_str(path) ==
    IF path = <<>> THEN <<>> ELSE <<"/">> \o Head(path) \o path_str(Tail(path))

\* str.startswith
startswith(s, prefix) ==
    Len(prefix) <= Len(s) /\ SubSeq(s, 1, Len(prefix)) = prefix

\* '..' in url
has_dotdot(ref) ==
    \E i \in DOMAIN ref.segs : \E j \in DOMAIN ref.segs[i] : ref.segs[i][j] = ".."

\* the guard of process_images on a local reference
body_reference_unsafe_abs_only(ref) == ref.abs

body_reference_unsafe(ref) == has_dotdot(ref) \/ ref.abs

Res(op, md, ref, read, file, why) ==
    [op |-> op, md |-> md, ref |-> ref, read |-> read, file |-> file, why |-> why]

NoRes == Res("none", <<>>, Ref(FALSE, <<>>), FALSE, <<>>, "")

\* process_images on a local reference of a markdown file, up to the call of
\* copy_local_image, which reads the file when it exists
process_images_local(ref, markdown_file_path) ==
    LET markdown_dir == dirname(markdown_file_path)
        full_local_path == join(markdown_dir, ref.segs)
        abs_local_path == path_str(abspath(full_local_path))
    IN  IF body_reference_unsafe(ref)
        THEN Res("process_images", markdown_file_path, ref, FALSE, <<>>, "unsafe path")
        ELSE IF ~(\/ startswith(abs_local_path, path_str(abspath(ContentDir)))
                  \/ startswith(abs_local_path, path_str(abspath(markdown_dir))))
        THEN Res("process_images", markdown_file_path, ref, FALSE, <<>>, "outside content")
        ELSE IF ~exists(full_local_path)
        THEN Res("process_images", markdown_file_path, ref, FALSE, <<>>, "missing")
        ELSE Res("process_images", markdown_file_path, ref,
                 Opened(full_local_path) \in files, Opened(full_local_path), "copied")

\* the places process_featured_image looks at, in order
search_paths(ref, markdown_file_path) ==
    IF ref.abs THEN << join(SiteRoot, ref.segs) >>
    ELSE IF Len(ref.segs) > 1 /\ ref.segs[1] \in { <<"assets">>, <<"content">> }
    THEN << join(SiteRoot, ref.segs) >>
    ELSE LET filename == basename(ref)
         IN  << join(AssetsDir \o << <<"images">> >>, filename),
                join(AssetsDir, filename),
                join(PostsDir, filename),
                join(PagesDir, filename),
                join(ContentDir, filename),
                join(dirname(markdown_file_path), filename) >>

\* process_featured_image on a local path, up to the call of copy_local_image
process_featured_image_local(ref, markdown_file_path) ==
    LET paths == search_paths(ref, markdown_file_path)
        found == { i \in DOMAIN paths : exists(paths[i]) }
    IN  IF found = {}
        THEN Res("process_featured_image", markdown_file_path, ref, FALSE, <<>>, "missing")
        ELSE LET first == CHOOSE i \in found : \A j \in found : i <= j
                 full_local_path == abspath(paths[first])
             IN  IF ~startswith(path_str(full_local_path), path_str(abspath(SiteRoot)))
                 THEN Res("process_featured_image", markdown_file_path, ref, FALSE, <<>>,
                          "unsafe path")
                 ELSE Res("process_featured_image", markdown_file_path, ref,
                          full_local_path \in files, full_local_path, "copied")

\* FileProcessor.process_images meets a local reference in a content file
ProcessImagesLocal ==
    /\ res.op = "none"
    /\ \E ref \in LocalRefs, md \in MarkdownFiles : res' = process_images_local(ref, md)
    /\ UNCHANGED files
    /\ UNCHANGED notPathVars

\* FileProcessor.process_featured_image is given a local path
ProcessFeaturedImageLocal ==
    /\ res.op = "none"
    /\ \E ref \in LocalRefs, md \in MarkdownFiles : res' = process_featured_image_local(ref, md)
    /\ UNCHANGED files
    /\ UNCHANGED notPathVars

\* the resolution returns to its caller
ResolutionReturns ==
    /\ res.op # "none"
    /\ res' = NoRes
    /\ UNCHANGED files
    /\ UNCHANGED notPathVars

\* the disk the build finds: any of the candidate files exist
PathInit ==
    /\ files \in SUBSET CandidateFiles
    /\ res = NoRes

PathIdle ==
    /\ files = {}
    /\ res = NoRes

PathNext ==
    \/ ProcessImagesLocal
    \/ ProcessFeaturedImageLocal
    \/ ResolutionReturns

(***************************************************************************)
(* Properties of the resolution of local references.                       *)
(***************************************************************************)
\* the path lies in the directory or beneath it
IsUnder(path, dir) ==
    Len(dir) <= Len(path) /\ SubSeq(path, 1, Len(dir)) = dir

Sources == {"A", "B", "X", "L", "M", "R"}

\* "A" https://a.example/photo.jpg, "B" https://b.example/photo.jpg,
\* "X" https://c.example/photo.jpg (a body that is no image), "L" photo.jpg next
\* to the markdown file, "M" gone/photo.jpg (a local file that does not exist),
\* "R" https://localhost/photo.jpg (a URL validate_url refuses)
IsRemote(s) == s \in {"A", "B", "X", "R"}
Decodes(s) == s # "X"

\* what download_image and copy_local_image do before they look for the
\* artifact: a URL without image extension or one validate_url refuses, and a
\* local file that does not exist, return None
reaches_cache_check(s) == s \notin {"M", "R"}

\* a file name of the images directory: photo.<ext>, or photo_<n>.<ext> for n > 0
Name(n, ext) == [n |-> n, ext |-> ext]
NoName == Name(0, "none")
Names == { Name(n, ext) : n \in 0..MaxRuns, ext \in {"jpg", "webp"} }

\* image_path.rsplit('.', 1)[0] + '.webp'
webp_of(name) == Name(name.n, "webp")

File(st, src) == [st |-> st, src |-> src]
Absent == File("absent", "none")

\* os.path.exists in the images directory
Exists(name) == imgdir[name].st # "absent"

\* _make_filename_unique: the name itself when it is free, else the first free
\* name_<counter> (the counter never comes near its limit of 1000 here)
make_filename_unique(base_filename) ==
    IF ~Exists(base_filename) THEN base_filename
    ELSE LET free == { k \in 1..MaxRuns : ~Exists(Name(k, base_filename.ext)) }
         IN  Name(CHOOSE k \in free : \A j \in free : k <= j, base_filename.ext)

\* _sanitize_filename: the sanitized name made unique at once
sanitize_filename(s) == make_filename_unique(Name(0, "jpg"))

\* _sanitize_filename_without_uniqueness(url), os.path.basename(local_image_path)
base_image_name(s) == Name(0, "jpg")

\* the content files and the references process_images finds in each
ContentRefs == << {"A"}, {"A"}, {"B"}, {"X"}, {"L"}, {"M", "R"} >>
ContentFiles == DOMAIN ContentRefs

Worker(pc, file, todo, ref, name, read, out, converted, cached, hit) ==
    [pc |-> pc, file |-> file, todo |-> todo, ref |-> ref, name |-> name, read |-> read,
     out |-> out, converted |-> converted, cached |-> cached, hit |-> hit]

IdleWorker == Worker("idle", 0, {}, "none", NoName, "none", {}, 0, 0, "none")

AllWorkers == {1, 2}

Running == { w \in workers : wk[w].pc # "idle" }

\* local_image_paths[url] = "/images/<webp_name>"; src is the source whose image
\* the artifact holds at that moment
Mapped(ref, name) == [ref |-> ref, name |-> name, src |-> imgdir[name].src]

\* a worker takes a content file: FileProcessor.process calls process_images.
\* The pool gives each file of the build to one worker, once.
StartRun(w) ==
    /\ wk[w].pc = "idle"
    /\ Len(results) + Cardinality(Running) < MaxRuns
    /\ \E f \in ContentFiles :
          /\ \A v \in Running : wk[v].file # f
          /\ Cardinality(workers) > 1 => \A i \in DOMAIN results : results[i].file # f
          /\ wk' = [wk EXCEPT ![w] = Worker("next", f, ContentRefs[f], "none", NoName, "none",
                                             {}, 0, 0, "none")]
    /\ UNCHANGED <<imgdir, workers, results, dl, cv>>
    /\ UNCHANGED notImgVars

\* the next reference of the loop, up to the cache check of download_image or
\* copy_local_image: the un-suffixed WebP name exists, and is returned as cached
CacheCheck(w) ==
    /\ wk[w].pc = "next"
    /\ \E r \in wk[w].todo :
          LET base_webp_path == webp_of(base_image_name(r))
          IN  IF ~reaches_cache_check(r)
              THEN wk' = [wk EXCEPT ![w].todo = @ \ {r}]
              ELSE IF Exists(base_webp_path)
              THEN wk' = [wk EXCEPT ![w].todo = @ \ {r},
                                    ![w].out = @ \cup {Mapped(r, base_webp_path)},
                                    ![w].cached = @ + 1,
                                    ![w].hit = imgdir[base_webp_path].st]
              ELSE wk' = [wk EXCEPT ![w].todo = @ \ {r}, ![w].ref = r, ![w].pc = "unique"]
    /\ UNCHANGED <<imgdir, workers, results, dl, cv>>
    /\ UNCHANGED notImgVars

\* image_name = self._make_filename_unique(base_image_name, output_dir)
UniqueName(w) ==
    /\ wk[w].pc = "unique"
    /\ wk' = [wk EXCEPT ![w].name = make_filename_unique(base_image_name(wk[w].ref)),
                         ![w].pc = "open"]
    /\ UNCHANGED <<imgdir, workers, results, dl, cv>>
    /\ UNCHANGED notImgVars

\* safe_get and open(image_path, 'wb'), or the start of shutil.copy2 when the
\* destination does not exist yet: the file is there, its content is not
OpenDestination(w) ==
    /\ wk[w].pc = "open"
    /\ LET r == wk[w].ref
           name == wk[w].name
       IN  IF IsRemote(r)
           THEN /\ dl' = [dl EXCEPT ![r] = @ + 1]
                /\ imgdir' = [imgdir EXCEPT ![name] = File("partial", r)]
                /\ wk' = [wk EXCEPT ![w].pc = "write"]
           ELSE IF Exists(name)
           THEN /\ wk' = [wk EXCEPT ![w].pc = "convert"]
                /\ UNCHANGED <<imgdir, dl>>
           ELSE /\ imgdir' = [imgdir EXCEPT ![name] = File("partial", r)]
                /\ wk' = [wk EXCEPT ![w].pc = "write"]
                /\ UNCHANGED dl
    /\ UNCHANGED <<workers, results, cv>>
    /\ UNCHANGED notImgVars

\* the body is written and the file closed; when the file was removed in the
\* meantime, os.path.getsize (or copy2's copystat) raises and None is returned
WriteDestination(w) ==
    /\ wk[w].pc = "write"
    /\ IF Exists(wk[w].name)
       THEN /\ imgdir' = [imgdir EXCEPT ![wk[w].name] = File("full", wk[w].ref)]
            /\ wk' = [wk EXCEPT ![w].pc = "convert"]
       ELSE /\ wk' = [wk EXCEPT ![w].pc = "next"]
            /\ UNCHANGED imgdir
    /\ UNCHANGED <<workers, results, dl, cv>>
    /\ UNCHANGED notImgVars

\* convert_image_to_webp: Image.open(image_path) and the start of
\* img.save(webp_path), which creates the file under its final name; a source
\* that is missing, incomplete or no image raises, and the handler removes
\* webp_path
ConvertOpen(w) ==
    /\ wk[w].pc = "convert"
    /\ LET source == imgdir[wk[w].name]
           webp_path == webp_of(wk[w].name)
       IN  IF source.st = "full" /\ Decodes(source.src)
           THEN /\ imgdir' = [imgdir EXCEPT ![webp_path] = File("partial", source.src)]
                /\ cv' = [cv EXCEPT ![wk[w].ref] = @ + 1]
                /\ wk' = [wk EXCEPT ![w].pc = "save", ![w].read = source.src]
           ELSE /\ imgdir' = [imgdir EXCEPT ![webp_path] = Absent]
                /\ wk' = [wk EXCEPT ![w].pc = "next"]
                /\ UNCHANGED cv
    /\ UNCHANGED <<workers, results, dl>>
    /\ UNCHANGED notImgVars

\* img.save writes the encoded image and closes the file
ConvertSave(w) ==
    /\ wk[w].pc = "save"
    /\ LET webp_path == webp_of(wk[w].name)
       IN  IF Exists(webp_path)
           THEN imgdir' = [imgdir EXCEPT ![webp_path] = File("full", wk[w].read)]
           ELSE UNCHANGED imgdir
    /\ wk' = [wk EXCEPT ![w].pc = "verify"]
    /\ UNCHANGED <<workers, results, dl, cv>>
    /\ UNCHANGED notImgVars

\* the checks after the save (the output exists and is not empty), the removal
\* of the original, and back in process_images the count and the new path.  A
\* file another worker is writing at that moment is empty or not.
ConvertVerify(w) ==
    /\ wk[w].pc = "verify"
    /\ LET webp_path == webp_of(wk[w].name)
           accept ==
               /\ imgdir' = [imgdir EXCEPT ![wk[w].name] = Absent]
               /\ wk' = [wk EXCEPT ![w].pc = "next", ![w].converted = @ + 1,
                                    ![w].out = @ \cup {Mapped(wk[w].ref, webp_path)}]
           empty ==
               /\ imgdir' = [imgdir EXCEPT ![webp_path] = Absent]
               /\ wk' = [wk EXCEPT ![w].pc = "next"]
       IN  IF ~Exists(webp_path)
           THEN wk' = [wk EXCEPT ![w].pc = "next"] /\ UNCHANGED imgdir
           ELSE IF imgdir[webp_path].st = "partial" THEN accept \/ empty
           ELSE accept
    /\ UNCHANGED <<workers, results, dl, cv>>
    /\ UNCHANGED notImgVars

\* process_images returns (content, images_converted, images_cached)
FinishRun(w) ==
    /\ wk[w].pc = "next"
    /\ wk[w].todo = {}
    /\ results' = Append(results, [file |-> wk[w].file, out |-> wk[w].out,
                                    converted |-> wk[w].converted, cached |-> wk[w].cached])
    /\ wk' = [wk EXCEPT ![w] = IdleWorker]
    /\ UNCHANGED <<imgdir, workers, dl, cv>>
    /\ UNCHANGED notImgVars

ImgInit(n) ==
    /\ imgdir = [name \in Names |-> Absent]
    /\ workers = 1..n
    /\ wk = [w \in AllWorkers |-> IdleWorker]
    /\ results = <<>>
    /\ dl = [s \in Sources |-> 0]
    /\ cv = [s \in Sources |-> 0]

ImgNext ==
    \/ \E w \in workers : StartRun(w)
    \/ \E w \in workers : CacheCheck(w)
    \/ \E w \in workers : UniqueName(w)
    \/ \E w \in workers : OpenDestination(w)
    \/ \E w \in workers : WriteDestination(w)
    \/ \E w \in workers : ConvertOpen(w)
    \/ \E w \in workers : ConvertSave(w)
    \/ \E w \in workers : ConvertVerify(w)
    \/ \E w \in workers : FinishRun(w)

(***************************************************************************)
(* Properties of the images directory.                                     *)
(***************************************************************************)
\* the artifact names a finished run put into its output text
OutputText(r) == { [ref |-> e.ref, name |-> e.name] : e \in r.out }

\* C7 as claimed: in one build of the worker pool each source is downloaded
\* at most once and converted at most once, however the workers interleave,
\* and the documents that refer to one source name the same artifact.
C7_OneDownloadOneConversion ==
    /\ \A s \in Sources : dl[s] <= 1 /\ cv[s] <= 1
    /\ \A i, j \in DOMAIN results :
          \A e \in results[i].out : \A g \in results[j].out :
              e.ref = g.ref => e.name = g.name

\* C8 as claimed: a worker whose existence check finds the WebP artifact has
\* found a complete file that stays: the file is not one that is still being
\* written, and no artifact a document was given is removed afterwards.
C8_OnlyCompleteArtifactsObserved ==
    /\ \A w \in workers : wk[w].hit # "partial"
    /\ \A i \in DOMAIN results : \A e \in results[i].out : Exists(e.name)

\* C9 as claimed: of two sources with the same sanitized base name, the
\* second is never mapped onto the artifact of the first: every reference a
\* run rewrites points at an artifact that holds the image of its own source.
C9_DistinctSourcesDistinctArtifacts ==
    \A i \in DOMAIN results : \A e \in results[i].out : e.src = e.ref

\* C10 as claimed: a run of process_images on a text, directly followed by
\* a run on the same text, gives the same output text and converts nothing
\* in the second run.
C10_ProcessImagesIdempotent ==
    \A i \in DOMAIN results :
        (i + 1 \in DOMAIN results /\ results[i + 1].file = results[i].file)
            => /\ OutputText(results[i + 1]) = OutputText(results[i])
               /\ results[i + 1].converted = 0

\* self.image_conversion_count and self.image_cache_count of the orchestrator:
\* the sums of what the finished process_images calls returned
RECURSIVE sum_of(_, _)
sum_of(rs, counter) ==
    IF rs = <<>> THEN 0 ELSE rs[1][counter] + sum_of(Tail(rs), counter)

images_converted_total == sum_of(results, "converted")
images_cached_total == sum_of(results, "cached")

\* the pool has finished a build of exactly these content files
BuildFinished(fs) ==
    /\ Running = {}
    /\ { results[i].file : i \in DOMAIN results } = fs

\* C13 as claimed: the image totals of a pool build do not depend on how the
\* workers interleave. For the two documents that embed the same remote image,
\* from an empty images directory, every build ends with the totals of the
\* builds in which one worker runs after the other: one conversion, one cache hit.
C13_TotalsIndependentOfInterleaving ==
    BuildFinished({1, 2}) => images_converted_total = 1 /\ images_cached_total = 1

\* convert_image_to_webp returns None to worker w in this step
ConversionFails(w) ==
    /\ wk[w].pc \in {"convert", "verify"}
    /\ wk'[w].pc = "next"
    /\ wk'[w].converted = wk[w].converted

\* C19 as claimed: after a failed conversion neither a partly written artifact
\* nor the source file that was downloaded or copied for the reference is in
\* the images directory, and every artifact of another reference is still
\* there as it was.
C19_FailedConversionCleansUp ==
    [][\A w \in workers :
          ConversionFails(w) =>
              /\ imgdir'[webp_of(wk[w].name)].st # "partial"
              /\ imgdir'[wk[w].name] = Absent
              /\ \A name \in Names :
                    (name.ext = "webp" /\ Exists(name) /\ imgdir[name].src # wk[w].ref)
                        => imgdir'[name] = imgdir[name]]_vars

\* photo.webp, the un-suffixed sanitized WebP name of every source here
UnsuffixedWebp == Name(0, "webp")

\* in this step worker w takes reference r up to the cache check
CacheChecked(w, r) ==
    /\ wk[w].pc = "next"
    /\ r \in wk[w].todo
    /\ r \notin wk'[w].todo

\* what the claim says of a step that takes reference r
CacheBeforeUniqueness(w, r) ==
    /\ imgdir[UnsuffixedWebp].st # "absent" =>
          /\ wk'[w].out = wk[w].out \cup
                 {[ref |-> r, name |-> UnsuffixedWebp, src |-> imgdir[UnsuffixedWebp].src]}
          /\ wk'[w].cached = wk[w].cached + 1
          /\ wk'[w].name = wk[w].name
          /\ imgdir' = imgdir
          /\ dl' = dl
    /\ wk'[w].pc = "unique" => imgdir[UnsuffixedWebp].st = "absent"

\* C25: for a reference that reaches the cache check (a URL with an image
\* extension that validate_url accepts, a local file that exists): when the
\* un-suffixed WebP file exists its path is returned and the reference counted
\* as cached, nothing is fetched, copied or named; the worker goes on to make
\* the name unique only when that file is absent.
C25_CacheCheckBeforeUniqueness ==
    [][\A w \in workers : \A r \in Sources :
          (CacheChecked(w, r) /\ reaches_cache_check(r)) => CacheBeforeUniqueness(w, r)]_vars

\* a finished run was served from photo.webp, and no suffixed name was made
C25_Witness ==
    /\ \E i \in DOMAIN results : results[i].cached = 1 /\ results[i].converted = 0
    /\ \A name \in Names : name.n > 0 => ~Exists(name)
    /\ Exists(UnsuffixedWebp)

\* C25 as claimed: whenever the un-suffixed WebP file exists, its path is
\* returned and the reference is counted as cached, for every reference.
C25_CachedWheneverArtifactExists ==
    [][\A w \in workers : \A r \in Sources :
          CacheChecked(w, r) => CacheBeforeUniqueness(w, r)]_vars

\* C28 as claimed: when the pool has finished, every artifact a finished
\* run wrote into its document is a file of the images directory, however the
\* workers interleaved and however the conversions ended.
C28_ReferencedArtifactsExistAtEnd ==
    (Running = {} /\ results # <<>>) =>
        \A i \in DOMAIN results : \A e \in results[i].out : imgdir[e.name].st # "absent"

(***************************************************************************)
(* The output root (Stattic.__init__ with create_output_dir, and the steps *)
(* of Stattic.build).  An entry of the output root is a file or a          *)
(* directory; a directory is the set of the files beneath it, each with    *)
(* its path inside the entry and the origin of its content.                *)
(***************************************************************************)
Item(path, by) == [path |-> path, by |-> by]

NoEntry == [kind |-> "none", sub |-> {}]
FileEntry(by) == [kind |-> "file", sub |-> {Item(<<>>, by)}]
DirEntry(sub) == [kind |-> "dir", sub |-> sub]

\* the root files the generator lists as its own
RootFiles == {"index.html", "404.html", "sitemap.xml", "robots.txt", "llms.txt", "rss.xml"}

\* the names at the top level of the output root
Entries ==
    RootFiles \cup {"assets", "images", "blog", "feed", "about", "notes", "diary", "page", "CNAME"}

\* the files of the font cache inside the assets entry
FontFiles == {<<"fonts", "quicksand-400.woff">>}
FontsCss == <<"css", "fonts.css">>

\* the assets directory of the site sources
SourceAssets == {<<"css", "main.css">>}

Before(paths) == DirEntry({ Item(q, "before") : q \in paths })

\* what an entry may hold before the generator is constructed
PreContents(e) ==
    CASE e = "index.html" -> {NoEntry, FileEntry("before")}
      [] e = "CNAME" -> {NoEntry, FileEntry("before")}
      [] e = "assets" -> {NoEntry, Before(SourceAssets),
                          Before(SourceAssets \cup {FontsCss} \cup FontFiles)}
      [] e = "images" -> {NoEntry, Before({<<"photo.webp">>, <<"photo.jpg">>}),
                          Before({<<"photo.webp">>, <<"photo.jpg">>,
                                  <<"raw", "scan.webp">>, <<"raw", "scan.jpg">>})}
      [] e = "blog" -> {NoEntry, Before({<<"index.html">>})}
      [] e = "about" -> {NoEntry, Before({<<"index.html">>})}
      [] e = "notes" -> {NoEntry, Before({<<"index.html">>, <<"keep.txt">>})}
      [] e = "page" -> {NoEntry, Before({<<"2", "index.html">>})}
      [] OTHER -> {NoEntry}

\* the entries that may be there before, and the output roots made of them
Varying == <<"index.html", "CNAME", "assets", "images", "blog", "about", "notes", "page">>

OutputRoot(held) ==
    [e \in Entries |->
        IF \E k \in DOMAIN Varying : Varying[k] = e
        THEN held[CHOOSE k \in DOMAIN Varying : Varying[k] = e]
        ELSE NoEntry]

OutputRoots ==
    { OutputRoot(<<a, b, c, d, e, f, g, h>>) :
        a \in PreContents(Varying[1]), b \in PreContents(Varying[2]),
        c \in PreContents(Varying[3]), d \in PreContents(Varying[4]),
        e \in PreContents(Varying[5]), f \in PreContents(Varying[6]),
        g \in PreContents(Varying[7]), h \in PreContents(Varying[8]) }

\* a markdown file of content/pages: its name without .md, and whether it
\* starts with front matter (no page sets custom_url here)
Page(file, front_matter) == [file |-> file, front_matter |-> front_matter]

Sites ==
    [ blog_slug : {"blog", ""},
      pages : {{}, {Page("about", TRUE)}, {Page("about", FALSE)}},
      posts : {{}, {"notes"}, {"notes", "diary"}},
      posts_per_page : 1..MaxPostsPerPage,
      blog_template : {"redirect", "archive"} ]

\* slug = metadata.get('custom_url', <file name without extension>)
page_slug(page) == page.file

\* the set create_output_dir builds: the fixed names, and the slug of each
\* page whose text splits into front matter and body
stattic_generated(site) ==
    RootFiles \cup {"assets", "images", site.blog_slug, "feed"}
        \cup { page_slug(page) : page \in { q \in site.pages : q.front_matter } }

\* _fonts_are_cached: fonts.css and every expected font file are present
fonts_are_cached(assets) ==
    /\ FontsCss \in { i.path : i \in assets.sub }
    /\ FontFiles \subseteq { i.path : i \in assets.sub }

FontCache(assets) == { i \in assets.sub : i.path \in FontFiles \cup {FontsCss} }

\* the file names that end in '.webp'
WebpFileNames == {"photo.webp", "scan.webp"}

\* a variant of the test that also spares the JPEG files
ends_with_webp_or_jpg(img_file) == img_file \in WebpFileNames \cup {"photo.jpg", "scan.jpg"}

\* img_file.endswith('.webp'), for the names os.listdir gives
ends_with_webp(img_file) == img_file \in WebpFileNames

\* os.path.isfile(img_file_path) for a name of os.listdir(images): the items
\* with a longer path lie in a directory of that name
is_listed_file(item) == Len(item.path) = 1

\* create_output_dir: what becomes of one entry of the existing output root
reconcile_entry(t, site, item) ==
    IF item \notin stattic_generated(site) THEN t[item]
    ELSE IF item = "assets" /\ fonts_are_cached(t["assets"])
    THEN DirEntry(FontCache(t["assets"]))
    ELSE IF item = "images"
    THEN IF t[item].kind = "dir"
         THEN DirEntry({ i \in t[item].sub :
                            ~(is_listed_file(i) /\ ~ends_with_webp(i.path[1])) })
         ELSE t[item]
    ELSE NoEntry

create_output_dir(t, site) == [item \in Entries |-> reconcile_entry(t, site, item)]

\* os.makedirs(dir, exist_ok=True) and open(path, 'w') for every target: a
\* target names the entry and the path inside it (<<>> for a root file)
Target(entry, path) == [entry |-> entry, path |-> path]

write_all(t, targets) ==
    [e \in Entries |->
        LET paths == { w.path : w \in { v \in targets : v.entry = e } }
        IN  IF paths = {} THEN t[e]
            ELSE IF <<>> \in paths THEN FileEntry("build")
            ELSE DirEntry({ i \in t[e].sub : i.path \notin paths }
                              \cup { Item(q, "build") : q \in paths })]

\* os.makedirs(dir, exist_ok=True) alone
makedirs(t, e) == IF t[e].kind = "none" THEN [t EXCEPT ![e] = DirEntry({})] ELSE t

\* total_pages = (total_posts + posts_per_page - 1) // posts_per_page
total_pages(site) ==
    (Cardinality(site.posts) + site.posts_per_page - 1) \div site.posts_per_page

Gen(phase, fonts_cached) == [phase |-> phase, fonts_cached |-> fonts_cached]

\* fonts_to_preserve, for an output root that has an assets entry
fonts_to_preserve(t) == fonts_are_cached(t["assets"])

\* Stattic.__init__ when no font cache is to be preserved: create_output_dir,
\* then the images directory is made
StatticInit ==
    /\ gen.phase = "new"
    /\ ~fonts_to_preserve(tree)
    /\ tree' = makedirs(create_output_dir(tree, cfg), "images")
    /\ gen' = Gen("constructed", FALSE)
    /\ UNCHANGED <<cfg, pre>>
    /\ UNCHANGED notBuildVars

\* Stattic.__init__ when the font cache is complete, up to the middle of
\* _clean_assets_preserving_fonts: the cache is copied to a temporary
\* directory, the assets directory is removed and its two directories are made
\* again
CleanAssetsPreservingFonts ==
    /\ gen.phase = "new"
    /\ fonts_to_preserve(tree)
    /\ tree' = [tree EXCEPT !["assets"] = DirEntry({})]
    /\ gen' = Gen("cleaning", FALSE)
    /\ UNCHANGED <<cfg, pre>>
    /\ UNCHANGED notBuildVars

\* the rest of it: the copy back from the temporary directory succeeds, or it
\* raises an OSError, which is logged; either way the temporary directory is
\* removed, the other entries are reconciled and _fonts_cached is set
RestoreFonts ==
    /\ gen.phase = "cleaning"
    /\ LET reconciled == makedirs(create_output_dir(pre, cfg), "images")
       IN  \/ tree' = reconciled
           \/ tree' = [reconciled EXCEPT !["assets"] = DirEntry({})]
    /\ gen' = Gen("constructed", TRUE)
    /\ UNCHANGED <<cfg, pre>>
    /\ UNCHANGED notBuildVars

\* build, first step: the source assets replace the output assets, with the
\* font cache carried over when it is complete
CopyAssetsToOutput ==
    /\ gen.phase = "constructed"
    /\ LET fonts_cached == fonts_are_cached(tree["assets"])
           kept == IF fonts_cached THEN FontCache(tree["assets"]) ELSE {}
       IN  /\ tree' = [tree EXCEPT !["assets"] =
                          DirEntry(kept \cup { Item(q, "build") : q \in SourceAssets })]
           /\ gen' = Gen("assets", fonts_cached)
    /\ UNCHANGED <<cfg, pre>>
    /\ UNCHANGED notBuildVars

\* build, second step: skipped when the fonts were preserved; else the font
\* files that could be fetched are stored and fonts.css is written
DownloadGoogleFonts ==
    /\ gen.phase = "assets"
    /\ IF gen.fonts_cached \/ fonts_are_cached(tree["assets"])
       THEN UNCHANGED tree
       ELSE \E fetched \in SUBSET FontFiles :
               tree' = write_all(tree, { Target("assets", q) : q \in fetched \cup {FontsCss} })
    /\ gen' = [gen EXCEPT !.phase = "fonts"]
    /\ UNCHANGED <<cfg, pre>>
    /\ UNCHANGED notBuildVars

\* FileProcessor.process: where the document of a page or of a post goes
page_target(site, page) == Target(page_slug(page), <<"index.html">>)

post_target(site, post) ==
    IF site.blog_slug # "" THEN Target(site.blog_slug, <<post, "index.html">>)
    ELSE Target(post, <<"index.html">>)

\* build, third step: every page and every post is written
BuildPostsAndPages ==
    /\ gen.phase = "fonts"
    /\ tree' = write_all(tree, { page_target(cfg, page) : page \in cfg.pages }
                                   \cup { post_target(cfg, post) : post \in cfg.posts })
    /\ gen' = [gen EXCEPT !.phase = "content"]
    /\ UNCHANGED <<cfg, pre>>
    /\ UNCHANGED notBuildVars

\* build, fourth step: nothing without a blog slug; the redirect page when
\* there is neither a blog nor a home template; else the pages of the archive
BuildBlogPage ==
    /\ gen.phase = "content"
    /\ IF cfg.blog_slug = "" THEN UNCHANGED tree
       ELSE IF cfg.blog_template = "redirect"
       THEN tree' = write_all(tree, {Target(cfg.blog_slug, <<"index.html">>)})
       ELSE tree' = write_all(makedirs(tree, cfg.blog_slug),
                              { Target(cfg.blog_slug,
                                       IF n = 1 THEN <<"index.html">>
                                       ELSE <<"page", ToString(n), "index.html">>)
                                  : n \in 1..total_pages(cfg) })
    /\ gen' = [gen EXCEPT !.phase = "blog"]
    /\ UNCHANGED <<cfg, pre>>
    /\ UNCHANGED notBuildVars

\* build, fifth step: index.html for the first page of the posts, and
\* page/<n>/index.html for each further page; nothing without posts
BuildIndexPage ==
    /\ gen.phase = "blog"
    /\ IF cfg.posts = {} THEN UNCHANGED tree
       ELSE tree' = write_all(tree,
                { IF n = 1 THEN Target("index.html", <<>>)
                  ELSE Target("page", <<ToString(n), "index.html">>)
                    : n \in 1..total_pages(cfg) })
    /\ gen' = [gen EXCEPT !.phase = "index"]
    /\ UNCHANGED <<cfg, pre>>
    /\ UNCHANGED notBuildVars

\* build, last step
Build404Page ==
    /\ gen.phase = "index"
    /\ tree' = write_all(tree, {Target("404.html", <<>>)})
    /\ gen' = [gen EXCEPT !.phase = "done"]
    /\ UNCHANGED <<cfg, pre>>
    /\ UNCHANGED notBuildVars

BuildInit ==
    /\ cfg \in Sites
    /\ tree \in OutputRoots
    /\ pre = tree
    /\ gen = Gen("new", FALSE)

BuildNext ==
    \/ StatticInit
    \/ CleanAssetsPreservingFonts
    \/ RestoreFonts
    \/ CopyAssetsToOutput
    \/ DownloadGoogleFonts
    \/ BuildPostsAndPages
    \/ BuildBlogPage
    \/ BuildIndexPage
    \/ Build404Page

(***************************************************************************)
(* Properties of the output root.                                          *)
(***************************************************************************)
\* the generated-name set: the fixed file names, 'assets', 'images', 'feed',
\* the blog slug and the slugs of the current pages
GeneratedNames ==
    RootFiles \cup {"assets", "images", "feed", cfg.blog_slug}
        \cup { page_slug(page) : page \in cfg.pages }

\* C6 as claimed: once the output root is reconciled, and all through the
\* build that follows, every entry that existed before and whose name is not
\* in the generated-name set holds what it held before.
C6_OtherEntriesUntouched ==
    gen.phase \notin {"idle", "new"} =>
        \A e \in Entries \ GeneratedNames :
            pre[e].kind # "none" => tree[e] = pre[e]

\* the regular files of an entry whose name ends in '.webp', at any depth
Artifacts(entry) == { i \in entry.sub : i.path[Len(i.path)] \in WebpFileNames }

\* the regular files directly in the directory whose name does not end in '.webp'
ListedNonArtifacts(entry) == { i \in entry.sub : Len(i.path) = 1 } \ Artifacts(entry)

\* the generator has been constructed on an output root with an images directory
ImagesReconciled == gen.phase = "constructed" /\ pre["images"].kind = "dir"

\* C15, amended: reconciliation removes exactly the regular files directly in
\* the images directory whose name does not end in '.webp'; every '.webp'
\* file, and every file in a sub-directory, stays as it was.
C15_ListedNonArtifactsRemoved ==
    ImagesReconciled =>
        /\ tree["images"].kind = "dir"
        /\ Artifacts(pre["images"]) \subseteq tree["images"].sub
        /\ tree["images"].sub = pre["images"].sub \ ListedNonArtifacts(pre["images"])

\* an images directory with an artifact, a JPEG next to it and files in a
\* sub-directory has been reconciled
C15_Witness ==
    /\ ImagesReconciled
    /\ ListedNonArtifacts(pre["images"]) # {}
    /\ Artifacts(pre["images"]) # {}
    /\ \E i \in pre["images"].sub : Len(i.path) > 1 /\ i \notin Artifacts(pre["images"])

\* C15 as claimed: reconciliation of the images sub-tree removes exactly the
\* regular files whose name does not end in '.webp' and leaves every '.webp'
\* file as it was.
C15_NonArtifactsRemoved ==
    ImagesReconciled => tree["images"].sub = Artifacts(pre["images"])

\* C16 as claimed: when the font completeness check passes, the cached font
\* files and fonts.css are in the output tree at every point of the
\* reconciliation and after it, whether or not an I/O error interrupts it.
C16_FontCachePreservedInPlace ==
    (gen.phase \in {"cleaning", "constructed"} /\ fonts_are_cached(pre["assets"])) =>
        FontCache(pre["assets"]) \subseteq tree["assets"].sub

\* the directories a build makes for its pages, its posts and the further
\* pages of the index
DocumentDirs == {"blog", "about", "notes", "diary", "page"}

\* the documents of an earlier build that are still under the output root
StaleDocuments ==
    UNION { { Target(e, i.path) :
                i \in { j \in tree[e].sub :
                          j.by = "before" /\ j.path # <<>> /\
                          j.path[Len(j.path)] = "index.html" } } : e \in DocumentDirs }

\* C29 as claimed: the directories an earlier build made for pages, posts
\* and index pages are removed when the generator is constructed again, so
\* that after the build no document of the earlier build is left.
C29_NoStaleGeneratedDocument ==
    gen.phase = "done" => StaleDocuments = {}

(***************************************************************************)
(* The text of a content file (FileProcessor.process_images: the search    *)
(* for references, the loop over them, the rewriting).  A text is a        *)
(* sequence of tokens; a URL is the sequence of its tokens, so that one    *)
(* URL can be the end of another.                                          *)
(***************************************************************************)
SP == " "
COMMA == ","
QUOTE == "\""
Whitespace == {SP, "\n"}

\* <img src="photo.jpg" srcset="https://cdn.example/photo.jpg 2x">
TextSrcset ==
    << "<img", SP, "src=", QUOTE, "photo.jpg", QUOTE, SP,
       "srcset=", QUOTE, "https://cdn.example/", "photo.jpg", SP, "2x", QUOTE, ">" >>

\* ![alt](photo.jpg) ![alt](https://a.example/photo.jpg)
TextMarkdown ==
    << "![alt", "](", "photo.jpg", ")", SP,
       "![alt", "](", "https://a.example/", "photo.jpg", ")" >>

\* <a href="big.png"><img src="small.png"></a>
TextLink ==
    << "<a", SP, "href=", QUOTE, "big.png", QUOTE, ">",
       "<img", SP, "src=", QUOTE, "small.png", QUOTE, ">", "</a>" >>

\* <img srcset="a.jpg 1x, b.jpg 2x">
TextTwoEntries ==
    << "<img", SP, "srcset=", QUOTE, "a.jpg", SP, "1x", COMMA, SP, "b.jpg", SP, "2x",
       QUOTE, ">" >>

\* <img srcset="a.jpg 1x, b.jpg">
TextLastEntry ==
    << "<img", SP, "srcset=", QUOTE, "a.jpg", SP, "1x", COMMA, SP, "b.jpg", QUOTE, ">" >>

Texts == {TextSrcset, TextMarkdown, TextLink, TextTwoEntries, TextLastEntry}

\* the pattern stands in the text at position i
IsAt(s, i, pattern) ==
    /\ i + Len(pattern) - 1 <= Len(s)
    /\ SubSeq(s, i, i + Len(pattern) - 1) = pattern

\* the first position from i on that holds one of the tokens, or 0
first_of(s, i, tokens) ==
    LET found == { j \in i..Len(s) : s[j] \in tokens }
    IN  IF found = {} THEN 0 ELSE CHOOSE j \in found : \A k \in found : j <= k

\* a reference found in a text: where its URL starts, and the URL
Reference(at, url) == [at |-> at, url |-> url]

\* the tokens from position i up to the closing token: ([^"]+)" and (.*?)\)
captured(s, i, closing) ==
    LET j == first_of(s, i, {closing})
    IN  IF j = 0 THEN <<>> ELSE SubSeq(s, i, j - 1)

\* re.findall(r'!\[.*?\]\((.*?)\)', content)
markdown_image_urls(s) ==
    { Reference(i + 2, captured(s, i + 2, ")")) :
        i \in { k \in 1..Len(s) : IsAt(s, k, <<"![alt", "](">>)
                                   /\ first_of(s, k + 2, {")"}) # 0 } }

\* the attribute at position i stands in a tag that opens with the given token
in_tag(s, i, tag) ==
    \E j \in 1..i : s[j] = tag /\ \A k \in j..i : s[k] # ">"

\* re.findall(r'<img\s+[^>]*src="([^"]+)"', content) and the same for <a href
attribute_urls(s, tag, attribute) ==
    { Reference(i + 2, captured(s, i + 2, QUOTE)) :
        i \in { k \in 1..Len(s) : /\ IsAt(s, k, <<attribute, QUOTE>>)
                                   /\ in_tag(s, k, tag)
                                   /\ first_of(s, k + 2, {QUOTE}) > k + 2 } }

html_image_urls(s) == attribute_urls(s, "<img", "src=")
href_urls(s) == attribute_urls(s, "<a", "href=")

\* re.findall(r'srcset="([^"]+)"', content), and in each value
\* re.findall(r'([^\s,]+)', s): the runs of tokens between blanks and commas
all_srcset_urls(s) ==
    UNION { LET close == first_of(s, i + 2, {QUOTE})
                inside(k) == k >= i + 2 /\ k < close /\ s[k] \notin Whitespace \cup {COMMA}
                run(a, b) ==
                    a <= b /\ ~inside(a - 1) /\ ~inside(b + 1) /\ \A k \in a..b : inside(k)
            IN  { Reference(x[1], SubSeq(s, x[1], x[2])) :
                    x \in { y \in (1..Len(s)) \X (1..Len(s)) : run(y[1], y[2]) } }
          : i \in { k \in 1..Len(s) : IsAt(s, k, <<"srcset=", QUOTE>>)
                                       /\ first_of(s, k + 2, {QUOTE}) > k + 2 } }

references(s) ==
    markdown_image_urls(s) \cup html_image_urls(s) \cup href_urls(s) \cup all_srcset_urls(s)

\* image_urls = set(markdown_image_urls + html_image_urls + href_urls + all_srcset_urls)
image_urls(s) == { r.url : r \in references(s) }

\* how often the URL stands in the text as a reference
Occurrences(s, url) == Cardinality({ r \in references(s) : r.url = url })

\* webp_name: the file name of the URL with its extension replaced by .webp
WebpNames ==
    [ t \in {"photo.jpg", "a.jpg", "b.jpg", "big.png", "small.png", "1x", "2x"} |->
        CASE t = "photo.jpg" -> "photo.webp"
          [] t = "a.jpg" -> "a.webp"
          [] t = "b.jpg" -> "b.webp"
          [] t = "big.png" -> "big.webp"
          [] t = "small.png" -> "small.webp"
          [] t = "1x" -> "1x.webp"
          [] t = "2x" -> "2x.webp" ]

\* local_image_paths[url] = f"/images/{webp_name}"
new_path_of(url) == <<"/images/", WebpNames[url[Len(url)]]>>

\* str.replace: every occurrence, from the left, without overlap
RECURSIVE replace_from(_, _, _, _)
replace_from(s, i, old, new) ==
    IF i > Len(s) THEN <<>>
    ELSE IF IsAt(s, i, old) THEN new \o replace_from(s, i + Len(old), old, new)
    ELSE <<s[i]>> \o replace_from(s, i + 1, old, new)

replace(s, old, new) == replace_from(s, 1, old, new)

\* re.sub(f'{re.escape(original_url)}(?=\\s|,|$)', new_path, content): every
\* occurrence that is followed by white space, by a comma or by the end
RECURSIVE sub_from(_, _, _, _)
sub_from(s, i, old, new) ==
    IF i > Len(s) THEN <<>>
    ELSE IF /\ IsAt(s, i, old)
            /\ (i + Len(old) > Len(s) \/ s[i + Len(old)] \in Whitespace \cup {COMMA})
    THEN new \o sub_from(s, i + Len(old), old, new)
    ELSE <<s[i]>> \o sub_from(s, i + 1, old, new)

\* the four replacements made for one resolved URL
rewrite_one(content, original_url, new_path) ==
    LET c1 == replace(content, <<"src=", QUOTE>> \o original_url \o <<QUOTE>>,
                               <<"src=", QUOTE>> \o new_path \o <<QUOTE>>)
        c2 == replace(c1, <<"href=", QUOTE>> \o original_url \o <<QUOTE>>,
                          <<"href=", QUOTE>> \o new_path \o <<QUOTE>>)
        c3 == replace(c2, <<"](">> \o original_url \o <<")">>,
                          <<"](">> \o new_path \o <<")">>)
    IN  sub_from(c3, 1, original_url, new_path)

\* for original_url, new_path in local_image_paths.items(), in insertion order
RECURSIVE rewrite_all(_, _)
rewrite_all(content, local_image_paths) ==
    IF local_image_paths = <<>> THEN content
    ELSE rewrite_all(rewrite_one(content, local_image_paths[1].url, local_image_paths[1].path),
                     Tail(local_image_paths))

\* what the loop finds for one URL: no image path (the URL was rejected, the
\* file is missing, the download failed), a cached WebP path, a path whose
\* conversion succeeds, a path whose conversion fails
Resolutions == {"none", "cached", "converted", "conversion_failed"}

Doc(pc, content, todo, local_image_paths, failed, images_converted, images_cached, out) ==
    [pc |-> pc, content |-> content, todo |-> todo, local_image_paths |-> local_image_paths,
     failed |-> failed, images_converted |-> images_converted,
     images_cached |-> images_cached, out |-> out]

\* process_images is called: the references are collected
FindReferences ==
    /\ doc.pc = "called"
    /\ doc' = [doc EXCEPT !.pc = "loop", !.todo = image_urls(doc.content)]
    /\ UNCHANGED notTextVars

\* one turn of the loop over image_urls (a set: in any order)
ResolveReference ==
    /\ doc.pc = "loop"
    /\ \E url \in doc.todo : \E found \in Resolutions :
          doc' = [doc EXCEPT
                    !.todo = @ \ {url},
                    !.images_cached = IF found = "cached" THEN @ + 1 ELSE @,
                    !.images_converted = IF found = "converted" THEN @ + 1 ELSE @,
                    !.local_image_paths =
                        IF found \in {"cached", "converted"}
                        THEN Append(@, [url |-> url, path |-> new_path_of(url)])
                        ELSE @,
                    !.failed = IF found \in {"none", "conversion_failed"}
                               THEN @ \cup {url} ELSE @]
    /\ UNCHANGED notTextVars

\* after the loop the references are rewritten and the text is returned
RewriteReferences ==
    /\ doc.pc = "loop"
    /\ doc.todo = {}
    /\ doc' = [doc EXCEPT !.pc = "returned",
                          !.out = rewrite_all(doc.content, doc.local_image_paths)]
    /\ UNCHANGED notTextVars

TextInit ==
    \E content \in Texts : doc = Doc("called", content, {}, <<>>, {}, 0, 0, <<>>)

TextIdle == doc = Doc("idle", <<>>, {}, <<>>, {}, 0, 0, <<>>)

TextNext ==
    \/ FindReferences
    \/ ResolveReference
    \/ RewriteReferences

(***************************************************************************)
(* Properties of the rewriting.                                            *)
(***************************************************************************)
\* C11 as claimed: a reference whose resolution failed stands in the returned
\* text as often as in the given text, and the two counters together count
\* the resolved references only.
C11_FailedReferenceUnmodified ==
    doc.pc = "returned" =>
        /\ \A url \in doc.failed : Occurrences(doc.out, url) = Occurrences(doc.content, url)
        /\ doc.images_converted + doc.images_cached = Len(doc.local_image_paths)

\* the URLs of the entries of the srcset lists: in each comma-separated entry
\* the first run of characters (the run after it is the descriptor)
entry_urls(s) ==
    { r \in all_srcset_urls(s) :
        /\ r.at > 1
        /\ \/ s[r.at - 1] \in {QUOTE, COMMA}
           \/ r.at > 2 /\ s[r.at - 1] \in Whitespace /\ s[r.at - 2] = COMMA }

\* the path a URL was resolved to, <<>> when it was not
resolved_path(local_image_paths, url) ==
    LET found == { k \in DOMAIN local_image_paths : local_image_paths[k].url = url }
    IN  IF found = {} THEN <<>> ELSE local_image_paths[CHOOSE k \in found : TRUE].path

\* the text with the URL of every resolved entry replaced where it stands
RECURSIVE entries_rewritten(_, _, _)
entries_rewritten(s, i, local_image_paths) ==
    IF i > Len(s) THEN <<>>
    ELSE LET here == { r \in entry_urls(s) :
                         r.at = i /\ resolved_path(local_image_paths, r.url) # <<>> }
         IN  IF here = {} THEN <<s[i]>> \o entries_rewritten(s, i + 1, local_image_paths)
             ELSE LET r == CHOOSE e \in here : TRUE
                  IN  resolved_path(local_image_paths, r.url)
                          \o entries_rewritten(s, i + Len(r.url), local_image_paths)

\* C23 as claimed: in a text whose references are the entries of srcset lists,
\* the returned text is the given text with the URL of each resolved entry
\* replaced by its new path; the descriptors and the unresolved entries stand
\* as they stood.
C23_SrcsetRewrittenEntryByEntry ==
    (/\ doc.pc = "returned"
     /\ references(doc.content) = all_srcset_urls(doc.content)
     /\ \A k \in DOMAIN doc.local_image_paths :
           doc.local_image_paths[k].url \in { r.url : r \in entry_urls(doc.content) })
        => doc.out = entries_rewritten(doc.content, 1, doc.local_image_paths)

\* the orders in which a dict of n entries can have been filled
Orders(n) == { p \in [1..n -> 1..n] : \A i, j \in 1..n : p[i] = p[j] => i = j }

\* r1 stands somewhere inside r2
is_substring(r1, r2) == \E i \in 1..Len(r2) : IsAt(r2, i, r1)

\* C27 as claimed: the returned text does not depend on the order in which
\* the references were resolved, and rewriting a reference r1 that is a
\* substring of another reference r2 leaves r2 alone: an unresolved r2 stands
\* as often as before, a resolved r2 has become its own new path.
C27_RewriteLeavesOtherReferences ==
    doc.pc = "returned" =>
        /\ \A p \in Orders(Len(doc.local_image_paths)) :
              rewrite_all(doc.content,
                          [k \in DOMAIN doc.local_image_paths |-> doc.local_image_paths[p[k]]])
                  = doc.out
        /\ \A r1, r2 \in image_urls(doc.content) :
              (/\ r1 # r2
               /\ is_substring(r1, r2)
               /\ resolved_path(doc.local_image_paths, r1) # <<>>
               /\ resolved_path(doc.local_image_paths, r2) = <<>>)
                  => Occurrences(doc.out, r2) = Occurrences(doc.content, r2)

(***************************************************************************)
(* The two build strategies (FileProcessor.process as the orchestrator     *)
(* sees it, Stattic._build_single_threaded, _build_with_multiprocessing).  *)
(* Both run here on the same task list, each with its own aggregates: the  *)
(* list is built single-threaded first, and then again with the pool.      *)
(***************************************************************************)
\* the content files: a file that reads and renders; a file that cannot be
\* opened; a file whose template does not exist; a file whose front matter
\* is not a mapping, so that metadata.get raises inside process
FileKinds == {"fine", "unreadable", "no_template", "bad_front_matter"}

Task(file, is_page) == [file |-> file, is_page |-> is_page]

TaskSeqs(is_page) ==
    UNION { [1..n -> { Task(file, is_page) : file \in FileKinds }] : n \in 0..MaxTasks }

\* tasks = [(file, False) for file in post_files] + [(file, True) for file in page_files]
TaskLists == { posts \o pages : posts \in TaskSeqs(FALSE), pages \in TaskSeqs(TRUE) }

\* what process returns: the metadata record of the post (0 for None), the two
\* image counts, and whether the output document was written
Result(post_metadata, images_converted, images_cached, written) ==
    [post_metadata |-> post_metadata, images_converted |-> images_converted,
     images_cached |-> images_cached, written |-> written]

\* process never returns None; the strategies test their result for it
None == Result(0, 0, 0, FALSE)
IsNone(result) == FALSE

\* parse_markdown_with_metadata: an unreadable file gives ({}, "")
is_read(task) == task.file # "unreadable"

\* process_images on the body: each readable body holds one image that is
\* converted and one that is cached
images_of(task) == IF is_read(task) THEN <<1, 1>> ELSE <<0, 0>>

\* build_post_or_page: False when the template is not found
build_post_or_page(task) == task.file # "no_template"

\* FileProcessor.process for task i of the list
process(i) ==
    LET task == tasks[i]
    IN  IF task.file = "bad_front_matter"
        THEN Result(0, 0, 0, FALSE)
        ELSE Result(IF task.is_page THEN 0 ELSE i,
                    images_of(task)[1], images_of(task)[2], build_post_or_page(task))

Run(pc, todo, image_conversion_count, image_cache_count, posts_generated, pages_generated,
    posts, counted) ==
    [pc |-> pc, todo |-> todo, image_conversion_count |-> image_conversion_count,
     image_cache_count |-> image_cache_count, posts_generated |-> posts_generated,
     pages_generated |-> pages_generated, posts |-> posts, counted |-> counted]

\* the images of a result are added to the totals
accumulate_images(run, result) ==
    [run EXCEPT !.image_conversion_count = @ + result.images_converted,
                !.image_cache_count = @ + result.images_cached]

\* a post is counted, and its metadata kept when there is some
accumulate_post(run, i, result) ==
    [run EXCEPT !.posts_generated = @ + 1,
                !.counted = @ \cup {i},
                !.posts = IF result.post_metadata # 0 THEN Append(@, result.post_metadata) ELSE @]

accumulate_page(run, i) ==
    [run EXCEPT !.pages_generated = @ + 1, !.counted = @ \cup {i}]

\* _build_single_threaded, the body of its loop
single_threaded_result(run, i, result) ==
    IF IsNone(result) THEN run
    ELSE IF tasks[i].is_page THEN accumulate_page(accumulate_images(run, result), i)
    ELSE accumulate_post(accumulate_images(run, result), i, result)

\* a variant of the loop over the post futures that counts a post only when it
\* comes with metadata
post_future_result_with_metadata(run, i, result) ==
    IF IsNone(result) THEN run
    ELSE IF result.post_metadata = 0 THEN accumulate_images(run, result)
    ELSE accumulate_post(accumulate_images(run, result), i, result)

\* _build_with_multiprocessing, the body of the loop over the post futures
post_future_result(run, i, result) ==
    IF IsNone(result) THEN run
    ELSE accumulate_post(accumulate_images(run, result), i, result)

\* _build_with_multiprocessing, the body of the loop over the page futures
page_future_result(run, i, result) ==
    accumulate_page(IF IsNone(result) THEN run ELSE accumulate_images(run, result), i)

Posts == { i \in DOMAIN tasks : ~tasks[i].is_page }
Pages == { i \in DOMAIN tasks : tasks[i].is_page }

\* for file_path, is_page in tasks: the next task of the list
SingleThreadedTask ==
    /\ single.pc = "tasks"
    /\ single.todo # {}
    /\ LET i == CHOOSE k \in single.todo : \A j \in single.todo : k <= j
       IN  single' = [single_threaded_result(single, i, process(i)) EXCEPT !.todo = @ \ {i}]
    /\ UNCHANGED <<tasks, pool>>
    /\ UNCHANGED notTaskVars

SingleThreadedReturns ==
    /\ single.pc = "tasks"
    /\ single.todo = {}
    /\ single' = [single EXCEPT !.pc = "done"]
    /\ UNCHANGED <<tasks, pool>>
    /\ UNCHANGED notTaskVars

\* for future in as_completed(post_futures): any post that is still out
PostFutureCompletes ==
    /\ single.pc = "done"
    /\ pool.pc = "posts"
    /\ \E i \in pool.todo :
          pool' = [post_future_result(pool, i, process(i)) EXCEPT !.todo = @ \ {i}]
    /\ UNCHANGED <<tasks, single>>
    /\ UNCHANGED notTaskVars

\* all posts are in: the pages are submitted
PagesSubmitted ==
    /\ single.pc = "done"
    /\ pool.pc = "posts"
    /\ pool.todo = {}
    /\ pool' = [pool EXCEPT !.pc = "pages", !.todo = Pages]
    /\ UNCHANGED <<tasks, single>>
    /\ UNCHANGED notTaskVars

\* for future in as_completed(page_futures): any page that is still out
PageFutureCompletes ==
    /\ pool.pc = "pages"
    /\ \E i \in pool.todo :
          pool' = [page_future_result(pool, i, process(i)) EXCEPT !.todo = @ \ {i}]
    /\ UNCHANGED <<tasks, single>>
    /\ UNCHANGED notTaskVars

MultiprocessingReturns ==
    /\ pool.pc = "pages"
    /\ pool.todo = {}
    /\ pool' = [pool EXCEPT !.pc = "done"]
    /\ UNCHANGED <<tasks, single>>
    /\ UNCHANGED notTaskVars

TaskInit ==
    /\ tasks \in TaskLists
    /\ single = Run("tasks", DOMAIN tasks, 0, 0, 0, 0, <<>>, {})
    /\ pool = Run("posts", Posts, 0, 0, 0, 0, <<>>, {})

TaskIdle ==
    /\ tasks = <<>>
    /\ single = Run("idle", {}, 0, 0, 0, 0, <<>>, {})
    /\ pool = Run("idle", {}, 0, 0, 0, 0, <<>>, {})

TaskNext ==
    \/ SingleThreadedTask
    \/ SingleThreadedReturns
    \/ PostFutureCompletes
    \/ PagesSubmitted
    \/ PageFutureCompletes
    \/ MultiprocessingReturns

(***************************************************************************)
(* Properties of the two strategies.                                       *)
(***************************************************************************)
\* the files whose processing raised and was caught in process
Raised == { i \in DOMAIN tasks : tasks[i].file = "bad_front_matter" }

\* C12 as claimed: in both strategies a file whose processing failed is in no
\* counter and has no metadata record, and every file of the list is processed.
C12_FailedFileCountsNothing ==
    \A run \in {single, pool} :
        /\ run.counted \cap Raised = {}
        /\ Range(run.posts) \cap Raised = {}
        /\ run.pc = "done" => run.todo = {}

Unbuildable == { i \in DOMAIN tasks : tasks[i].file \in {"unreadable", "no_template"} }

\* C20 as claimed: a file that cannot be read or has no template is not counted
\* as generated and leaves no metadata record, and the files that are in order
\* are all counted when the strategy returns.
C20_UnbuildableFileIsAFailure ==
    \A run \in {single, pool} :
        /\ run.counted \cap Unbuildable = {}
        /\ Range(run.posts) \cap Unbuildable = {}
        /\ run.pc = "done" => { i \in DOMAIN tasks : tasks[i].file = "fine" } \subseteq run.counted

(***************************************************************************)
(* One download (FileProcessor.download_image from the response of         *)
(* safe_get to its return): the header checks, the destination file, the   *)
(* body read chunk by chunk, and the handlers of the exceptions.           *)
(***************************************************************************)
\* max_size = 10 * 1024 * 1024
max_size == 10485760

\* response.iter_content(chunk_size=8192)
chunk_size == 8192

valid_content_types ==
    {"image/jpeg", "image/jpg", "image/png", "image/gif", "image/webp", "image/bmp",
     "image/tiff", "image/tif"}

\* the lower-cased Content-Type header as the sequence of its parts, the media
\* type first; <<>> when the response has none
ContentTypes ==
    { <<>>, <<"image/png">>, <<"image/jpeg", "; ", "charset=binary">>, <<"text/html">>,
      <<"text/html", "; ", "from=", "image/png">> }

\* any(ct in content_type for ct in valid_content_types), a substring test
contains_valid_content_type(content_type) ==
    \E k \in DOMAIN content_type : content_type[k] \in valid_content_types

\* the Content-Length header: absent, a decimal number, or some other text
ContentLength(kind, value) == [kind |-> kind, value |-> value]
ContentLengths ==
    { ContentLength("absent", 0), ContentLength("text", 0), ContentLength("number", 0),
      ContentLength("number", max_size), ContentLength("number", max_size + 1) }

\* the number of bytes the server really sends
BodySizes == {0, chunk_size, max_size, max_size + 1}

Response(content_type, content_length, body) ==
    [content_type |-> content_type, content_length |-> content_length, body |-> body]

Responses ==
    { Response(ct, cl, body) : ct \in ContentTypes, cl \in ContentLengths, body \in BodySizes }

\* downloaded_size > max_size, os.path.getsize(image_path) > max_size
exceeds_max_size(size) == size > max_size

\* content_type and not any(...): the response is turned away for its type
content_type_refused(response) ==
    response.content_type # <<>> /\ ~contains_valid_content_type(response.content_type)

\* image_file: not there, or there with so many bytes written
ImageFile(there, size) == [exists |-> there, size |-> size]
NoImageFile == ImageFile(FALSE, 0)

Download(pc, response, image_file, downloaded_size, created, returned) ==
    [pc |-> pc, response |-> response, image_file |-> image_file,
     downloaded_size |-> downloaded_size, created |-> created, returned |-> returned]

\* return None / return image_path
download_returns(value) == [dn EXCEPT !.pc = "returned", !.returned = value]

\* self._safe_remove_file(image_path)
safe_remove_file(d) == [d EXCEPT !.image_file = NoImageFile]

\* the header checks: the content type, then int(content_length), which raises
\* a ValueError on other text (caught by the outer handler), then the size
CheckHeaders ==
    /\ dn.pc = "headers"
    /\ dn' = IF content_type_refused(dn.response) THEN download_returns("None")
             ELSE IF dn.response.content_length.kind = "text" THEN download_returns("None")
             ELSE IF /\ dn.response.content_length.kind = "number"
                     /\ exceeds_max_size(dn.response.content_length.value)
             THEN download_returns("None")
             ELSE [dn EXCEPT !.pc = "open"]
    /\ UNCHANGED notDownVars

\* open(image_path, 'wb'): the file is there and empty, or the open raises an
\* OSError and the inner handler returns None
OpenImageFile ==
    /\ dn.pc = "open"
    /\ \/ dn' = [dn EXCEPT !.pc = "stream", !.image_file = ImageFile(TRUE, 0),
                           !.created = TRUE]
       \/ dn' = download_returns("None")
    /\ UNCHANGED notDownVars

\* one round of the loop over iter_content: the next chunk is counted; past the
\* ceiling the file is removed and None returned, else the chunk is written
ReadChunk ==
    /\ dn.pc = "stream"
    /\ dn.downloaded_size < dn.response.body
    /\ LET rest == dn.response.body - dn.downloaded_size
           chunk == IF rest < chunk_size THEN rest ELSE chunk_size
           downloaded_size == dn.downloaded_size + chunk
       IN  dn' = IF exceeds_max_size(downloaded_size)
                 THEN safe_remove_file([download_returns("None")
                                           EXCEPT !.downloaded_size = downloaded_size])
                 ELSE [dn EXCEPT !.downloaded_size = downloaded_size,
                                 !.image_file = ImageFile(TRUE, @.size + chunk)]
    /\ UNCHANGED notDownVars

\* iter_content or image_file.write raises an OSError (the exceptions of
\* requests are IOErrors): the inner handler removes the file
ReadRaisesOSError ==
    /\ dn.pc = "stream"
    /\ dn' = safe_remove_file(download_returns("None"))
    /\ UNCHANGED notDownVars

\* the loop raises an exception that is no OSError (a MemoryError, an error of
\* the HTTP library that requests does not wrap): the file is closed by its
\* context manager and the outer handler returns None
ReadRaisesOtherException ==
    /\ dn.pc = "stream"
    /\ dn' = download_returns("None")
    /\ UNCHANGED notDownVars

\* the body is read: the file is closed, its size is checked once more, and
\* its path is returned
FinalSizeVerification ==
    /\ dn.pc = "stream"
    /\ dn.downloaded_size = dn.response.body
    /\ dn' = IF exceeds_max_size(dn.image_file.size)
             THEN safe_remove_file(download_returns("None"))
             ELSE download_returns("image_path")
    /\ UNCHANGED notDownVars

DownInit ==
    \E response \in Responses :
        dn = Download("headers", response, NoImageFile, 0, FALSE, "nothing")

DownIdle ==
    dn = Download("idle", Response(<<>>, ContentLength("absent", 0), 0), NoImageFile, 0,
                  FALSE, "nothing")

DownNext ==
    \/ CheckHeaders
    \/ OpenImageFile
    \/ ReadChunk
    \/ ReadRaisesOSError
    \/ ReadRaisesOtherException
    \/ FinalSizeVerification

(***************************************************************************)
(* Properties of one download.                                             *)
(***************************************************************************)
\* the declared length, when there is one, is a number within the ceiling
DeclaredLengthWithinCeiling ==
    \/ dn.response.content_length.kind = "absent"
    \/ dn.response.content_length.kind = "number" /\ dn.response.content_length.value <= max_size

\* C17 as claimed: a path is returned only when the advertised content type is
\* one of the accepted image media types, the declared length (if any) is
\* within the ceiling and the bytes read are within the ceiling; every other
\* call returns None.
C17_StoredOnlyAcceptedType ==
    /\ dn.pc = "returned" => dn.returned \in {"image_path", "None"}
    /\ dn.returned = "image_path" =>
          /\ dn.response.content_type # <<>>
          /\ dn.response.content_type[1] \in valid_content_types
          /\ DeclaredLengthWithinCeiling
          /\ dn.downloaded_size <= max_size

\* C18 as claimed: when download_image returns None after it has created the
\* destination file, the file does not exist any more.
C18_FailedDownloadLeavesNoFile ==
    (dn.returned = "None" /\ dn.created) => ~dn.image_file.exists

(***************************************************************************)
(* One generator from Stattic.__init__ to the end of Stattic.build: which  *)
(* component touches the output root when, what raises, and when the       *)
(* content files are handed to a strategy.                                 *)
(***************************************************************************)
\* if total_files >= 12: the pool is used
PoolThreshold == 12

\* what the generator is constructed on: whether templates_dir exists, whether
\* it is an absolute path, whether the package brings its own templates,
\* whether the output root is absent, present, or present and not writable,
\* and the number of markdown files under content/
Environments ==
    [ templates_exist : BOOLEAN, templates_isabs : BOOLEAN, package_templates : BOOLEAN,
      output : {"absent", "present", "unwritable"}, total_files : 0..MaxFiles ]

\* the templates directory the loader ends up with exists: the given one, or
\* the package's when the given one is relative and missing
templates_found(e) ==
    e.templates_exist \/ (~e.templates_isabs /\ e.package_templates)

Life(pc, environment, log, dispatched, processed, written) ==
    [pc |-> pc, environment |-> environment, log |-> log, dispatched |-> dispatched,
     processed |-> processed, written |-> written]

\* a variant of __init__ that makes the images directory first
images_dir_before_create_output_dir == <<"makedirs_images", "create_output_dir">>

\* what __init__ does on the output root, in its order: self.create_output_dir(),
\* then os.makedirs(self.images_dir, exist_ok=True)
init_output_steps == <<"create_output_dir", "makedirs_images">>

\* Stattic.__init__: the Jinja environment is made on templates_dir as it is,
\* then create_output_dir, which raises on an output root it cannot change, then
\* the images directory
Construct ==
    /\ life.pc = "new"
    /\ life' = IF life.environment.output = "unwritable"
               THEN [life EXCEPT !.pc = "raised", !.log = Append(@, init_output_steps[1])]
               ELSE [life EXCEPT !.pc = "constructed", !.log = @ \o init_output_steps]
    /\ UNCHANGED notLifeVars

\* build: copy_assets_to_output
CopyAssets ==
    /\ life.pc = "constructed"
    /\ life' = [life EXCEPT !.pc = "assets", !.log = Append(@, "copy_assets_to_output")]
    /\ UNCHANGED notLifeVars

\* build: download_google_fonts
DownloadFonts ==
    /\ life.pc = "assets"
    /\ life' = [life EXCEPT !.pc = "fonts", !.log = Append(@, "download_google_fonts")]
    /\ UNCHANGED notLifeVars

\* build_posts_and_pages: nothing without files, else the strategy is chosen
\* and, for the pool, the worker processes are started
ChooseStrategy ==
    /\ life.pc = "fonts"
    /\ life' = IF life.environment.total_files = 0 THEN [life EXCEPT !.pc = "content"]
               ELSE IF life.environment.total_files >= PoolThreshold
               THEN [life EXCEPT !.pc = "files", !.dispatched = TRUE]
               ELSE [life EXCEPT !.pc = "files"]
    /\ UNCHANGED notLifeVars

\* one content file goes through FileProcessor.process; its document is
\* written when its template is found
ProcessFile ==
    /\ life.pc = "files"
    /\ life.processed < life.environment.total_files
    /\ life' = [life EXCEPT !.processed = @ + 1,
                            !.written = IF templates_found(life.environment) THEN @ + 1 ELSE @,
                            !.log = Append(@, "process")]
    /\ UNCHANGED notLifeVars

FilesDone ==
    /\ life.pc = "files"
    /\ life.processed = life.environment.total_files
    /\ life' = [life EXCEPT !.pc = "content"]
    /\ UNCHANGED notLifeVars

\* build: build_blog_page, build_index_page, build_404_page
BuildListings ==
    /\ life.pc = "content"
    /\ life' = [life EXCEPT !.pc = "built",
                            !.log = @ \o <<"build_blog_page", "build_index_page",
                                           "build_404_page">>]
    /\ UNCHANGED notLifeVars

LifeInit ==
    \E e \in Environments : life = Life("new", e, <<>>, FALSE, 0, 0)

LifeIdle ==
    life = Life("idle", [templates_exist |-> TRUE, templates_isabs |-> TRUE,
                         package_templates |-> TRUE, output |-> "absent", total_files |-> 0],
                <<>>, FALSE, 0, 0)

LifeNext ==
    \/ Construct
    \/ CopyAssets
    \/ DownloadFonts
    \/ ChooseStrategy
    \/ ProcessFile
    \/ FilesDone
    \/ BuildListings

(***************************************************************************)
(* Properties of the generator's life.                                     *)
(***************************************************************************)
\* C21 as claimed: when the templates root is missing, or the output root
\* cannot be created or reconciled, the construction raises and nothing more
\* happens: no content file is processed and no worker is dispatched.
C21_FatalErrorAbortsBeforeContent ==
    (~templates_found(life.environment) \/ life.environment.output = "unwritable") =>
        /\ life.pc \in {"idle", "new", "raised"}
        /\ life.processed = 0
        /\ ~life.dispatched

\* C24: create_output_dir is the first thing that touches the output root and
\* runs once; asset copy, font download, file processing and the listing pages
\* come after it, and the pool is started only after the construction.
C24_ReconciliationFirstAndOnce ==
    /\ life.log # <<>> => life.log[1] = "create_output_dir"
    /\ \A k \in DOMAIN life.log : life.log[k] = "create_output_dir" => k = 1
    /\ life.pc \in {"new", "raised", "idle"} => Len(life.log) <= 1
    /\ life.dispatched => life.pc \in {"files", "content", "built"}
    /\ life.processed > 0 => life.pc \in {"files", "content", "built"}

\* a build of twelve files or more, over an existing output root, has ended
C24_Witness ==
    /\ life.pc = "built"
    /\ life.dispatched
    /\ life.environment.output = "present"
    /\ life.processed >= PoolThreshold

(***************************************************************************)
(* FileProcessor.process on one content file, step by step: the body's    *)
(* references, the rewrite, the markdown filter, build_post_or_page with   *)
(* the featured image, the template and the document, and for a post the   *)
(* metadata of the listing.                                                *)
(***************************************************************************)
\* how download_image or copy_local_image and convert_image_to_webp end for one
\* reference: the un-suffixed WebP was there ("cached"), the source was stored
\* and converted ("converted"), the source was stored and is a .webp itself
\* ("webp_source"), or None came back somewhere ("failed")
ImageOutcomes == {"cached", "converted", "webp_source", "failed"}

\* the path handed back ends in .webp without a conversion
returns_webp_path(outcome) == outcome \in {"cached", "webp_source"}

\* the outcome of the same reference when it is processed once more
outcome_again(outcome) == IF outcome = "failed" THEN "failed" ELSE "cached"

RECURSIVE BodyRefs(_)
BodyRefs(n) ==
    IF n = 0 THEN {<<>>}
    ELSE BodyRefs(n - 1) \cup
         { Append(b, o) : b \in { c \in BodyRefs(n - 1) : Len(c) = n - 1 }, o \in ImageOutcomes }

\* env.get_template and template.render: done, TemplateNotFound or
\* TemplateSyntaxError (build_post_or_page returns False), another exception
TemplateOutcomes == {"rendered", "TemplateNotFound", "raises"}

ContentFile == [ is_page : BOOLEAN, body : BodyRefs(MaxBodyRefs),
                 featured_image : ImageOutcomes \cup {"none"}, template : TemplateOutcomes ]

\* the steps of the image pipeline, and the steps that render
ImageSteps == {"image", "rewrite", "featured_image"}
RenderSteps == {"markdown_filter", "render"}

FileRun(pc, file, todo, log, images_converted, images_cached, conversions, served, result) ==
    [pc |-> pc, file |-> file, todo |-> todo, log |-> log,
     images_converted |-> images_converted, images_cached |-> images_cached,
     conversions |-> conversions, served |-> served, result |-> result]

NoFileResult == [images_converted |-> 0, images_cached |-> 0, post_metadata |-> FALSE]

\* parse_markdown_with_metadata
ParseMarkdown ==
    /\ fp.pc = "process"
    /\ fp' = [fp EXCEPT !.pc = "images", !.log = Append(@, "parse"), !.todo = fp.file.body]
    /\ UNCHANGED notProcVars

\* process_images, one reference of the loop: a path that ends in .webp is
\* counted as cached, a conversion that returns a path as converted
ProcessBodyImage ==
    /\ fp.pc = "images"
    /\ fp.todo # <<>>
    /\ LET outcome == Head(fp.todo)
       IN  fp' = [fp EXCEPT !.todo = Tail(@),
                            !.log = Append(@, "image"),
                            !.images_cached = IF returns_webp_path(outcome) THEN @ + 1 ELSE @,
                            !.images_converted = IF outcome = "converted" THEN @ + 1 ELSE @,
                            !.served = IF outcome = "cached" THEN @ + 1 ELSE @,
                            !.conversions = IF outcome = "converted" THEN @ + 1 ELSE @]
    /\ UNCHANGED notProcVars

\* process_images: the references are rewritten and the text returned
RewriteContent ==
    /\ fp.pc = "images"
    /\ fp.todo = <<>>
    /\ fp' = [fp EXCEPT !.pc = "markdown", !.log = Append(@, "rewrite")]
    /\ UNCHANGED notProcVars

\* html_content = self.markdown_filter(processed_content)
MarkdownFilter ==
    /\ fp.pc = "markdown"
    /\ fp' = [fp EXCEPT !.pc = "featured", !.log = Append(@, "markdown_filter")]
    /\ UNCHANGED notProcVars

\* build_post_or_page: process_featured_image when the front matter names one;
\* what it fetches and converts is counted nowhere
ProcessFeaturedImage ==
    /\ fp.pc = "featured"
    /\ LET outcome == fp.file.featured_image
       IN  IF outcome = "none"
           THEN fp' = [fp EXCEPT !.pc = "template"]
           ELSE fp' = [fp EXCEPT !.pc = "template",
                                 !.log = Append(@, "featured_image"),
                                 !.served = IF outcome = "cached" THEN @ + 1 ELSE @,
                                 !.conversions = IF outcome = "converted" THEN @ + 1 ELSE @]
    /\ UNCHANGED notProcVars

\* build_post_or_page: the template is loaded and rendered; a template error
\* returns False, any other exception leaves process through its handler
RenderTemplate ==
    /\ fp.pc = "template"
    /\ fp' = CASE fp.file.template = "rendered" ->
                      [fp EXCEPT !.pc = "write", !.log = Append(@, "render")]
               [] fp.file.template = "TemplateNotFound" ->
                      [fp EXCEPT !.pc = "built"]
               [] OTHER ->
                      [fp EXCEPT !.pc = "returned", !.result = NoFileResult]
    /\ UNCHANGED notProcVars

\* build_post_or_page: the document is written
WriteDocument ==
    /\ fp.pc = "write"
    /\ fp' = [fp EXCEPT !.pc = "built", !.log = Append(@, "write")]
    /\ UNCHANGED notProcVars

\* process, for a page: the counts of process_images are returned
ReturnPage ==
    /\ fp.pc = "built"
    /\ fp.file.is_page
    /\ fp' = [fp EXCEPT !.pc = "returned",
                        !.result = [images_converted |-> fp.images_converted,
                                    images_cached |-> fp.images_cached,
                                    post_metadata |-> FALSE]]
    /\ UNCHANGED notProcVars

\* process, for a post: the excerpt, and process_featured_image once more for
\* the metadata of the listing
ListingMetadata ==
    /\ fp.pc = "built"
    /\ ~fp.file.is_page
    /\ LET outcome == outcome_again(fp.file.featured_image)
       IN  IF fp.file.featured_image = "none"
           THEN fp' = [fp EXCEPT !.pc = "listed", !.log = Append(@, "excerpt")]
           ELSE fp' = [fp EXCEPT !.pc = "listed",
                                 !.log = @ \o <<"excerpt", "featured_image">>,
                                 !.served = IF outcome = "cached" THEN @ + 1 ELSE @]
    /\ UNCHANGED notProcVars

\* process, for a post: post_meta and the counts of process_images are returned
ReturnPost ==
    /\ fp.pc = "listed"
    /\ fp' = [fp EXCEPT !.pc = "returned",
                        !.result = [images_converted |-> fp.images_converted,
                                    images_cached |-> fp.images_cached,
                                    post_metadata |-> TRUE]]
    /\ UNCHANGED notProcVars

ProcInit ==
    \E f \in ContentFile : fp = FileRun("process", f, <<>>, <<>>, 0, 0, 0, 0, NoFileResult)

ProcIdle ==
    fp = FileRun("idle", [is_page |-> TRUE, body |-> <<>>, featured_image |-> "none",
                          template |-> "rendered"], <<>>, <<>>, 0, 0, 0, 0, NoFileResult)

ProcNext ==
    \/ ParseMarkdown
    \/ ProcessBodyImage
    \/ RewriteContent
    \/ MarkdownFilter
    \/ ProcessFeaturedImage
    \/ RenderTemplate
    \/ WriteDocument
    \/ ReturnPage
    \/ ListingMetadata
    \/ ReturnPost

(***************************************************************************)
(* Properties of one call of process.                                      *)
(***************************************************************************)
\* C26 as claimed: in one call of process every step of the image pipeline
\* (the body's references, the rewrite, the featured image) comes before the
\* markdown filter and the template are run, and none comes after the
\* document was written.
C26_ImagePipelineBeforeRendering ==
    \A i, j \in DOMAIN fp.log :
        (i < j /\ fp.log[j] \in ImageSteps) => fp.log[i] \notin RenderSteps \cup {"write"}

\* C30 as claimed: the counts a call of process returns are the number of
\* conversions that made a new artifact and the number of references served
\* from an artifact that was there before, the body's references and the
\* featured image alike.
C30_CountsMatchWhatHappened ==
    fp.pc = "returned" =>
        /\ fp.result.images_converted = fp.conversions
        /\ fp.result.images_cached = fp.served

(***************************************************************************)
(* Specifications: one for each part of the program, the other parts idle. *)
(***************************************************************************)
UrlIdle ==
    /\ call = NoCall
    /\ last = [any |-> FALSE, url |-> NoUrl, ok |-> FALSE]

BuildIdle ==
    /\ cfg = [blog_slug |-> "blog", pages |-> {}, posts |-> {}, posts_per_page |-> 1,
              blog_template |-> "redirect"]
    /\ tree = [e \in Entries |-> NoEntry]
    /\ pre = tree
    /\ gen = Gen("idle", FALSE)

ImgIdle == ImgInit(0)

InitUrl == UrlInit /\ PathIdle /\ ImgIdle /\ BuildIdle /\ TextIdle /\ TaskIdle /\ DownIdle /\ LifeIdle /\ ProcIdle

SpecUrl == InitUrl /\ [][UrlNext]_vars

InitPath == PathInit /\ UrlIdle /\ ImgIdle /\ BuildIdle /\ TextIdle /\ TaskIdle /\ DownIdle /\ LifeIdle /\ ProcIdle

SpecPath == InitPath /\ [][PathNext]_vars

\* the sequential strategy: one FileProcessor, one file after the other, build
\* after build
InitSeq == ImgInit(1) /\ UrlIdle /\ PathIdle /\ BuildIdle /\ TextIdle /\ TaskIdle /\ DownIdle /\ LifeIdle /\ ProcIdle

SpecSeq == InitSeq /\ [][ImgNext]_vars

\* the pool: worker processes that share the images directory
InitPool == ImgInit(2) /\ UrlIdle /\ PathIdle /\ BuildIdle /\ TextIdle /\ TaskIdle /\ DownIdle /\ LifeIdle /\ ProcIdle

SpecPool == InitPool /\ [][ImgNext]_vars

\* one construction of the generator and one build, for every site and every
\* output root that is there before
InitBuild == BuildInit /\ UrlIdle /\ PathIdle /\ ImgIdle /\ TextIdle /\ TaskIdle /\ DownIdle /\ LifeIdle /\ ProcIdle

SpecBuild == InitBuild /\ [][BuildNext]_vars

\* one call of process_images, for every text and every outcome of its
\* references
InitText == TextInit /\ UrlIdle /\ PathIdle /\ ImgIdle /\ BuildIdle /\ TaskIdle /\ DownIdle /\ LifeIdle /\ ProcIdle

SpecText == InitText /\ [][TextNext]_vars

\* one task list, built by the one strategy and by the other
InitTasks == TaskInit /\ UrlIdle /\ PathIdle /\ ImgIdle /\ BuildIdle /\ TextIdle /\ DownIdle /\ LifeIdle /\ ProcIdle

SpecTasks == InitTasks /\ [][TaskNext]_vars

\* one call of download_image on one response
InitDownload ==
    DownInit /\ UrlIdle /\ PathIdle /\ ImgIdle /\ BuildIdle /\ TextIdle /\ TaskIdle /\ LifeIdle /\ ProcIdle

SpecDownload == InitDownload /\ [][DownNext]_vars

\* one generator, constructed and built once
InitLife ==
    LifeInit /\ UrlIdle /\ PathIdle /\ ImgIdle /\ BuildIdle /\ TextIdle /\ TaskIdle /\ DownIdle /\ ProcIdle

SpecLife == InitLife /\ [][LifeNext]_vars

\* one call of FileProcessor.process, for every content file
InitProcess ==
    /\ ProcInit /\ UrlIdle /\ PathIdle /\ ImgIdle /\ BuildIdle /\ TextIdle /\ TaskIdle /\ DownIdle
    /\ LifeIdle

SpecProcess == InitProcess /\ [][ProcNext]_vars

====
